---- MODULE Spec2Model ----
(***************************************************************************)
(* The validation-and-fallback core of the ATS-Portal hiring pipeline:     *)
(* the JSON repair engines of the job matcher and of the decision agent,   *)
(* the per-stage validators, default records and salvage passes, and the   *)
(* three stage entry points parse_resume, match_job and generate_decision. *)
(*                                                                         *)
(* Text is a sequence of tokens.  A token is one character class of the    *)
(* text the repair passes look at (a brace, a quote, a word character, a   *)
(* newline ...), a code fence, or a whole well-formed JSON object:         *)
(*   "P"  the object the language model wrote; its content is the record   *)
(*        held in the variable payload.  It is on one line, its keys are   *)
(*        double-quoted and it holds no apostrophe, so no repair pass      *)
(*        rewrites its inside;                                             *)
(*   "D"  json.dumps(create_default_analysis()).                           *)
(***************************************************************************)
EXTENDS Integers, Sequences, FiniteSets, TLC

\* ------------------------------------------------------------------ bounds
\* Longest text enumerated token by token for the repair engines.
MaxLen == 3
\* Longest core of a completion handed to a stage (between its prefix and suffix).
MaxBody == 2

\* ------------------------------------------------------------------ tokens
LB == "{"
RB == "}"
LS == "["
RS == "]"
COLON == ":"
COMMA == ","
DQ == "dq"            \* the double quote character
SQ == "sq"            \* the single quote character (apostrophe)
WCH == "w"            \* a letter: matches \w, is no JSON literal
DIG == "1"            \* a digit: matches \w, a run of them is a JSON number
SP == "sp"            \* a blank
NL == "nl"            \* a line break
FENCE == "fence"      \* three backticks
FENCEJSON == "fencejson" \* three backticks followed by the word json
OBJ == "P"
DEFOBJ == "D"
\* json.dumps(self.create_default_analysis().dict()) of the pydantic variant
PDEFOBJ == "Dp"
\* a backslash and a double quote, as line 99 of clean_json_response writes them
EQ == "eq"
\* an object after line 99 put a backslash before the opening quote of its keys
BADOBJ == "B"

ObjTokens == {OBJ, DEFOBJ, PDEFOBJ}
CharTokens == {LB, RB, LS, RS, COLON, COMMA, DQ, SQ, WCH, DIG, SP, NL, FENCE, FENCEJSON}

IsSpace(c) == c \in {SP, NL}          \* \s of re, and the whitespace of json and str.strip
IsWord(c) == c \in {WCH, DIG}         \* \w of re
StartsWithBrace(c) == c \in {LB} \cup ObjTokens
EndsWithBrace(c) == c \in {RB} \cup ObjTokens

\* --------------------------------------------------------- sequence helpers
At(t, i) == IF i >= 1 /\ i <= Len(t) THEN t[i] ELSE "eof"

Slice(t, a, b) == IF a > b THEN <<>> ELSE SubSeq(t, a, b)

SeqsUpTo(S, n) == UNION {[1..k -> S] : k \in 0..n}

\* t[:p] + c + t[p:]
InsertAt(t, p, c) == Slice(t, 1, p) \o <<c>> \o Slice(t, p + 1, Len(t))

RECURSIVE SkipSpace(_, _)
SkipSpace(t, i) == IF IsSpace(At(t, i)) THEN SkipSpace(t, i + 1) ELSE i

RECURSIVE SkipWord(_, _)
SkipWord(t, i) == IF IsWord(At(t, i)) THEN SkipWord(t, i + 1) ELSE i

RECURSIVE SkipDigits(_, _)
SkipDigits(t, i) == IF At(t, i) = DIG THEN SkipDigits(t, i + 1) ELSE i

RECURSIVE SkipSpaceBack(_, _)
SkipSpaceBack(t, i) == IF IsSpace(At(t, i)) THEN SkipSpaceBack(t, i - 1) ELSE i

\* str.strip()
Strip(t) == Slice(t, SkipSpace(t, 1), SkipSpaceBack(t, Len(t)))

\* str.replace: every single quote becomes a double quote
ReplaceQuotes(t) == [i \in 1..Len(t) |-> IF t[i] = SQ THEN DQ ELSE t[i]]

\* ------------------------------------------------------------- json.loads
\* Each scanner returns the position after what it read; when the text is
\* not JSON there (json.JSONDecodeError) it returns 0, or -q when the error
\* is: Unterminated string starting at q.  The string opened at q is read
\* from position i on.
RECURSIVE ScanString(_, _, _)
ScanString(t, i, q) ==
    IF i > Len(t) THEN 0 - q                   \* unterminated string
    ELSE IF t[i] = DQ THEN i + 1
    ELSE IF t[i] = NL THEN 0                   \* control character in a string
    ELSE IF t[i] \in ObjTokens \cup {BADOBJ} THEN 0  \* a quote inside the object ends the string
    ELSE ScanString(t, i + 1, q)

RECURSIVE ParseValue(_, _), ParseMembers(_, _), ParseElements(_, _)
ParseValue(t, i) ==
    LET c == At(t, i) IN
    IF c = DQ THEN ScanString(t, i + 1, i)
    ELSE IF c = DIG THEN SkipDigits(t, i)
    ELSE IF c \in ObjTokens THEN i + 1
    ELSE IF c = LB THEN
        LET j == SkipSpace(t, i + 1) IN
        IF At(t, j) = RB THEN j + 1 ELSE ParseMembers(t, j)
    ELSE IF c = LS THEN
        LET j == SkipSpace(t, i + 1) IN
        IF At(t, j) = RS THEN j + 1 ELSE ParseElements(t, j)
    ELSE 0

ParseMembers(t, i) ==
    IF At(t, i) # DQ THEN 0
    ELSE LET k == ScanString(t, i + 1, i) IN
         IF k <= 0 THEN k
         ELSE LET c == SkipSpace(t, k) IN
              IF At(t, c) # COLON THEN 0
              ELSE LET v == ParseValue(t, SkipSpace(t, c + 1)) IN
                   IF v <= 0 THEN v
                   ELSE LET e == SkipSpace(t, v) IN
                        IF At(t, e) = RB THEN e + 1
                        ELSE IF At(t, e) = COMMA THEN ParseMembers(t, SkipSpace(t, e + 1))
                        ELSE 0

ParseElements(t, i) ==
    LET v == ParseValue(t, i) IN
    IF v <= 0 THEN v
    ELSE LET e == SkipSpace(t, v) IN
         IF At(t, e) = RS THEN e + 1
         ELSE IF At(t, e) = COMMA THEN ParseElements(t, SkipSpace(t, e + 1))
         ELSE 0

\* json.loads(t) does not raise
Parses(t) ==
    LET e == ParseValue(t, SkipSpace(t, 1)) IN
    e > 0 /\ SkipSpace(t, e) = Len(t) + 1

\* The position q when json.loads(t) raises: Unterminated string starting
\* at q; 0 when it raises something else or nothing.
UnterminatedAt(t) ==
    LET e == ParseValue(t, SkipSpace(t, 1)) IN
    IF e < 0 THEN 0 - e ELSE 0

\* The structure json.loads(t) returns, for a text that parses: its tokens
\* without the whitespace between them.  Two texts load to equal structures
\* when these are equal (member order and repeated keys apart).
RECURSIVE Canon(_, _, _)
Canon(t, i, inString) ==
    IF i > Len(t) THEN <<>>
    ELSE IF inString THEN <<t[i]>> \o Canon(t, i + 1, t[i] # DQ)
    ELSE IF IsSpace(t[i]) THEN Canon(t, i + 1, FALSE)
    ELSE <<t[i]>> \o Canon(t, i + 1, t[i] = DQ)

Loads(t) == Canon(t, 1, FALSE)

\* ------------------------------------------------- the shared regex passes
\* re.sub(r'([{,]\s*)(\w+)(:)', r'\1"\2"\3', t), read from position i on.
\* gap: the pattern of the decision agent, (\s*:), allows blanks before the colon.
RECURSIVE QuoteKeys(_, _, _)
QuoteKeys(t, i, gap) ==
    IF i > Len(t) THEN <<>>
    ELSE LET w == SkipSpace(t, i + 1)
             e == SkipWord(t, w)
             c == IF gap THEN SkipSpace(t, e) ELSE e
         IN  IF t[i] \in {LB, COMMA} /\ e > w /\ At(t, c) = COLON
             THEN Slice(t, i, w - 1) \o <<DQ>> \o Slice(t, w, e - 1) \o <<DQ>>
                      \o Slice(t, e, c) \o QuoteKeys(t, c + 1, gap)
             ELSE <<t[i]>> \o QuoteKeys(t, i + 1, gap)

HasLineBreak(t, a, b) == \E k \in a..b : t[k] = NL

\* re.sub(r'"\s*\n\s*"', '",\n"', t), read from position i on.
RECURSIVE AddCommas(_, _)
AddCommas(t, i) ==
    IF i > Len(t) THEN <<>>
    ELSE LET j == SkipSpace(t, i + 1) IN
         IF t[i] = DQ /\ At(t, j) = DQ /\ HasLineBreak(t, i + 1, j - 1)
         THEN <<DQ, COMMA, NL, DQ>> \o AddCommas(t, j + 1)
         ELSE <<t[i]>> \o AddCommas(t, i + 1)

\* re.sub(r',(\s*[}\]])', r'\1', t), read from position i on.
RECURSIVE DropTrailingCommas(_, _)
DropTrailingCommas(t, i) ==
    IF i > Len(t) THEN <<>>
    ELSE LET j == SkipSpace(t, i + 1) IN
         IF t[i] = COMMA /\ At(t, j) \in {RB, RS}
         THEN Slice(t, i + 1, j) \o DropTrailingCommas(t, j + 1)
         ELSE <<t[i]>> \o DropTrailingCommas(t, i + 1)

FirstLineBreak(t) == CHOOSE k \in 1..Len(t) : t[k] = NL /\ ~HasLineBreak(t, 1, k - 1)

\* ------------------------------------------ JobMatchingAgent: text repair
\* fix_json_string lines 23-25: the two re.sub calls that drop the fence lines.
StripFenceLines(text) ==
    IF At(text, 1) \in {FENCE, FENCEJSON}
    THEN LET a == IF HasLineBreak(text, 1, Len(text))
                  THEN Slice(text, FirstLineBreak(text) + 1, Len(text))
                  ELSE text
         IN  IF At(a, Len(a) - 1) = NL /\ At(a, Len(a)) = FENCE
             THEN Slice(a, 1, Len(a) - 2)
             ELSE a
    ELSE text

\* fix_json_string lines 28-29
CloseBrace(text) == IF EndsWithBrace(At(text, Len(text))) THEN text ELSE text \o <<RB>>

fix_json_string(json_str) ==
    LET text == CloseBrace(StripFenceLines(Strip(json_str))) IN
    DropTrailingCommas(AddCommas(ReplaceQuotes(QuoteKeys(text, 1, FALSE)), 1), 1)

\* A handler that hands back the text that failed to parse.
return_unparsed(cleaned_text) == cleaned_text

\* What clean_json_response returns when its outer handler (line 111) runs:
\* json.dumps(self.create_default_analysis()).
JM_clean_on_exception(cleaned_text) == <<DEFOBJ>>

\* JobMatchingAgent.clean_json_response.  When the first parse fails, line 71
\* reads e, the name the except clause of line 60 bound and, as every except
\* clause does, unbound again when it ended: UnboundLocalError, an Exception,
\* caught at line 111.  Lines 72-109 (closing an unterminated string, the
\* second parse, region extraction) therefore never run.
JM_clean_json_response(response_text) ==
    LET cleaned_text == fix_json_string(response_text) IN
    IF Parses(cleaned_text) THEN cleaned_text
    ELSE JM_clean_on_exception(cleaned_text)

\* The passes of clean_json_response after line 71.  In ATS-Portal they are
\* never run; the pydantic variant of the agent (ATS With pydantic) runs them.
\* lines 65-68: every run of blanks becomes one blank, then a blank alone
\* between two braces or two brackets goes.
RECURSIVE CollapseBlanks(_, _)
CollapseBlanks(t, i) ==
    IF i > Len(t) THEN <<>>
    ELSE IF IsSpace(t[i]) THEN <<SP>> \o CollapseBlanks(t, SkipSpace(t, i))
    ELSE <<t[i]>> \o CollapseBlanks(t, i + 1)

RECURSIVE CloseEmpty(_, _)
CloseEmpty(t, i) ==
    IF i > Len(t) THEN <<>>
    ELSE IF At(t, i + 1) = SP
            /\ \/ (t[i] = LB /\ At(t, i + 2) = RB)
               \/ (t[i] = LS /\ At(t, i + 2) = RS)
         THEN <<t[i], t[i + 2]>> \o CloseEmpty(t, i + 3)
         ELSE <<t[i]>> \o CloseEmpty(t, i + 1)

JM_collapse(cleaned_text) == CloseEmpty(CollapseBlanks(cleaned_text, 1), 1)

\* line 92: re.search(r'{.*}', response_text, re.DOTALL), from the first
\* opening brace to the last closing brace after it.
Region(t) ==
    LET opens == {i \in 1..Len(t) : StartsWithBrace(t[i])}
        closes == {i \in 1..Len(t) : EndsWithBrace(t[i])}
    IN  IF opens = {} \/ closes = {} THEN [found |-> FALSE, text |-> <<>>]
        ELSE LET first == CHOOSE i \in opens : \A k \in opens : i <= k
                 last == CHOOSE i \in closes : \A k \in closes : i >= k
             IN  IF last > first \/ (last = first /\ t[first] \in ObjTokens)
                 THEN [found |-> TRUE, text |-> Slice(t, first, last)]
                 ELSE [found |-> FALSE, text |-> <<>>]

\* The lookahead of line 99, [^,}\]:]* and a quote, from position i on.
RECURSIVE QuoteAhead(_, _)
QuoteAhead(t, i) ==
    IF i > Len(t) THEN FALSE
    ELSE IF t[i] = DQ \/ t[i] \in ObjTokens THEN TRUE
    ELSE IF t[i] \in {COMMA, RB, RS, COLON} THEN FALSE
    ELSE QuoteAhead(t, i + 1)

\* line 99: a backslash goes before every quote that is not the first
\* character and after which another quote comes before any of , } ] and :
\* which holds for the opening quote of the first key of an object.
EscapeQuotes(t) ==
    [i \in 1..Len(t) |->
        IF t[i] = DQ /\ i > 1 /\ QuoteAhead(t, i + 1) THEN EQ
        ELSE IF t[i] \in ObjTokens THEN BADOBJ
        ELSE t[i]]

\* lines 92-99: the third attempt, on the original text
JM_region(response_text) ==
    LET json_match == Region(response_text) IN
    IF json_match.found
    THEN [found |-> TRUE, text |-> EscapeQuotes(fix_json_string(json_match.text))]
    ELSE json_match

\* ATS With pydantic, clean_json_response lines 66-86: a quote is put before
\* the quote that opens the unterminated string.
PYD_close_string(cleaned_text) ==
    LET q == UnterminatedAt(cleaned_text) IN
    IF q = 0 THEN cleaned_text ELSE InsertAt(cleaned_text, q - 1, DQ)

\* ATS With pydantic, JobMatchingAgent.clean_json_response: there e is read
\* inside its except clause, and all passes run.
PYD_clean_json_response(response_text) ==
    LET first == fix_json_string(response_text)
        second == JM_collapse(PYD_close_string(first))
        third == JM_region(response_text)
    IN  IF Parses(first) THEN first
        ELSE IF Parses(second) THEN second
        ELSE IF third.found /\ Parses(third.text) THEN third.text
        ELSE <<PDEFOBJ>>

\* ------------------------------------- DecisionFeedbackAgent: text repair
\* clean_json_response lines 23-30
DF_strip_fence(response_text) ==
    LET s == Strip(response_text)
        a == IF At(s, 1) \in {FENCEJSON, FENCE} THEN Tail(s) ELSE s
    IN  IF At(a, Len(a)) = FENCE THEN Slice(a, 1, Len(a) - 1) ELSE a

\* clean_json_response lines 33-36: re.search(r'({[\s\S]*})', t), from the
\* first opening brace to the last closing one.
ExtractObject(t) ==
    LET opens == {i \in 1..Len(t) : StartsWithBrace(t[i])}
        closes == {i \in 1..Len(t) : EndsWithBrace(t[i])}
    IN  IF opens = {} \/ closes = {} THEN t
        ELSE LET first == CHOOSE i \in opens : \A k \in opens : i <= k
                 last == CHOOSE i \in closes : \A k \in closes : i >= k
             IN  IF last > first \/ (last = first /\ t[first] \in ObjTokens)
                 THEN Slice(t, first, last)
                 ELSE t

\* clean_json_response lines 50-59
DF_basic_fixes(t) ==
    DropTrailingCommas(AddCommas(ReplaceQuotes(QuoteKeys(t, 1, TRUE)), 1), 1)

\* What happens at line 72, which reads e after the except clause of line 66
\* unbound it: UnboundLocalError leaves clean_json_response (no handler
\* encloses line 72).
DF_clean_after_basic(cleaned_text) == [raised |-> TRUE, text |-> <<>>]

\* DecisionFeedbackAgent.clean_json_response: the text it returns, or raised.
DF_clean_json_response(response_text) ==
    LET extracted == ExtractObject(DF_strip_fence(response_text))
        fixed == DF_basic_fixes(extracted)
    IN  IF Parses(extracted) THEN [raised |-> FALSE, text |-> extracted]
        ELSE IF Parses(fixed) THEN [raised |-> FALSE, text |-> fixed]
        ELSE DF_clean_after_basic(fixed)

\* ------------------------------------------------------- values in records
\* A JSON value held in a field: its Python type, and its number or text.
\* A list carries the label of what it holds ("" is the empty list); Absent
\* is a key the dict does not have.
Str(x) == [t |-> "str", n |-> 0, s |-> x]
Num(k) == [t |-> "num", n |-> k, s |-> ""]
List(x) == [t |-> "list", n |-> 0, s |-> x]
Absent == [t |-> "absent", n |-> 0, s |-> ""]

Has(v) == v.t # "absent"                      \* key in dict
IsNumber(v) == v.t = "num"                    \* isinstance(v, (int, float))
IsList(v) == v.t = "list"                     \* isinstance(v, list)
IsStr(v) == v.t = "str"                       \* isinstance(v, str)
\* A range test that forgot the upper end.
at_least_zero(v) == 0 <= v.n

InRange(v) == 0 <= v.n /\ v.n <= 100          \* 0 <= v <= 100

\* A value that should be a dict: k is "dict" (f holds its keys), "absent"
\* (the key is missing) or "other" (a string, a list, a number or null).
Dict(f) == [k |-> "dict", f |-> f]
Missing(keys) == [k |-> "absent", f |-> [x \in keys |-> Absent]]
NotADict(keys) == [k |-> "other", f |-> [x \in keys |-> Absent]]

\* the Python None
None == [none |-> TRUE]

\* --------------------------------------- DecisionFeedbackAgent: records
required_sections == {"decision", "rationale", "recommendations",
                      "hiring_manager_notes", "next_steps"}
valid_statuses == {"PROCEED", "HOLD", "REJECT"}
valid_stages == {"SKIP", "SCREENING", "TECHNICAL", "FULL_LOOP"}

DecisionKeys == {"status", "confidence_score", "interview_stage"}
RationaleKeys == {"key_strengths", "concerns", "risk_factors"}
RecommendationKeys == {"interview_focus", "skill_verification", "discussion_points"}
NotesKeys == {"salary_band_fit", "growth_trajectory", "team_fit_considerations",
              "onboarding_requirements"}
NextStepsKeys == {"immediate_actions", "required_approvals", "timeline_recommendation"}

create_default_decision ==
    [decision |-> Dict([status |-> Str("HOLD"),
                        confidence_score |-> Num(50),
                        interview_stage |-> Str("SCREENING")]),
     rationale |-> Dict([key_strengths |-> List("Unable to determine due to processing error"),
                         concerns |-> List("Unable to process candidate data completely"),
                         risk_factors |-> List("Decision based on incomplete information")]),
     recommendations |-> Dict([interview_focus |-> List("Verify resume contents manually"),
                               skill_verification |-> List("Conduct thorough technical assessment"),
                               discussion_points |-> List("Discuss areas mentioned in resume")]),
     hiring_manager_notes |-> Dict([salary_band_fit |-> Str("Unable to determine"),
                                    growth_trajectory |-> Str("Unable to determine"),
                                    team_fit_considerations |-> Str("Manual assessment required"),
                                    onboarding_requirements |-> List("Standard onboarding process")]),
     next_steps |-> Dict([immediate_actions |-> List("Re-run analysis or manually review"),
                          required_approvals |-> List("Hiring manager approval needed"),
                          timeline_recommendation |->
                              Str("Proceed with caution due to data processing issues")])]

\* all(key in section for key in keys): false for a value that is no dict
\* (or the subscript that follows raises TypeError, which validate_* catches).
HasAll(section, keys) == section.k = "dict" /\ \A key \in keys : Has(section.f[key])

validate_decision(decision) ==
    /\ \A section \in required_sections : decision[section].k # "absent"
    /\ HasAll(decision.decision, DecisionKeys)
    /\ IsStr(decision.decision.f.status)
    /\ decision.decision.f.status.s \in valid_statuses
    /\ IsNumber(decision.decision.f.confidence_score)
    /\ InRange(decision.decision.f.confidence_score)
    /\ IsStr(decision.decision.f.interview_stage)
    /\ decision.decision.f.interview_stage.s \in valid_stages
    /\ HasAll(decision.rationale, RationaleKeys)
    /\ \A key \in RationaleKeys : IsList(decision.rationale.f[key])
    /\ HasAll(decision.recommendations, RecommendationKeys)
    /\ \A key \in RecommendationKeys : IsList(decision.recommendations.f[key])
    /\ HasAll(decision.hiring_manager_notes, NotesKeys)
    /\ IsList(decision.hiring_manager_notes.f.onboarding_requirements)
    /\ HasAll(decision.next_steps, NextStepsKeys)
    /\ IsList(decision.next_steps.f.immediate_actions)
    /\ IsList(decision.next_steps.f.required_approvals)

\* A salvage that copies a confidence score only when it lies in 0..100.
confidence_in_range_only(section, default) ==
    IF IsNumber(section.f.confidence_score) /\ InRange(section.f.confidence_score)
    THEN section.f.confidence_score
    ELSE default.decision.f.confidence_score

\* fix_decision_structure line 423: the confidence score salvage copies.
SalvagedConfidence(section, default) ==
    IF IsNumber(section.f.confidence_score)
    THEN section.f.confidence_score
    ELSE default.decision.f.confidence_score

\* fix_decision_structure lines 430-437: a section other than decision.
SalvagedSection(decision, default, section) ==
    IF decision[section].k = "dict"
    THEN Dict([key \in DOMAIN default[section].f |->
                 IF decision[section].f[key].t = default[section].f[key].t
                 THEN decision[section].f[key]
                 ELSE default[section].f[key]])
    ELSE default[section]

\* The writes of fix_decision_structure into the instance default holds.
fix_decision_into(default, decision) ==
    LET section == decision.decision
    IN  [decision |->
            IF section.k = "dict"
            THEN Dict([status |->
                          IF IsStr(section.f.status) /\ section.f.status.s \in valid_statuses
                          THEN section.f.status ELSE default.decision.f.status,
                       confidence_score |-> SalvagedConfidence(section, default),
                       interview_stage |->
                          IF IsStr(section.f.interview_stage)
                             /\ section.f.interview_stage.s \in valid_stages
                          THEN section.f.interview_stage
                          ELSE default.decision.f.interview_stage])
            ELSE default.decision,
         rationale |-> SalvagedSection(decision, default, "rationale"),
         recommendations |-> SalvagedSection(decision, default, "recommendations"),
         hiring_manager_notes |-> SalvagedSection(decision, default, "hiring_manager_notes"),
         next_steps |-> SalvagedSection(decision, default, "next_steps")]

\* line 413: the instance is a fresh create_default_decision()
fix_decision_structure(decision) == fix_decision_into(create_default_decision, decision)

\* json.loads gave a value that is no object with any of the five sections
\* (a number, a string, a list, an object with other keys): validate_decision
\* rejects it and fix_decision_structure copies nothing from it, as for the
\* object with no section at all.
NoDecisionRecord ==
    [decision |-> Missing(DecisionKeys),
     rationale |-> Missing(RationaleKeys),
     recommendations |-> Missing(RecommendationKeys),
     hiring_manager_notes |-> Missing(NotesKeys),
     next_steps |-> Missing(NextStepsKeys)]

\* ------------------------------------------- JobMatchingAgent: records
analysis_keys == {"skills", "experience", "education", "additional"}
ComponentKeys == {"score", "matches", "gaps"}

DefaultComponent == Dict([score |-> Num(0), matches |-> List(""), gaps |-> List("")])

create_default_analysis ==
    [match_score |-> Num(0),
     analysis |-> [k |-> "dict", c |-> [key \in analysis_keys |-> DefaultComponent]],
     recommendation |-> Str("Unable to generate recommendation due to processing error"),
     key_strengths |-> List(""),
     areas_for_consideration |-> List("Analysis failed - please try again")]

validate_match_analysis(analysis) ==
    /\ Has(analysis.match_score)
    /\ analysis.analysis.k # "absent"
    /\ Has(analysis.recommendation)
    /\ Has(analysis.key_strengths)
    /\ Has(analysis.areas_for_consideration)
    /\ analysis.analysis.k = "dict"
    /\ \A key \in analysis_keys : analysis.analysis.c[key].k # "absent"
    /\ \A key \in analysis_keys :
          LET component == analysis.analysis.c[key] IN
          /\ HasAll(component, ComponentKeys)
          /\ IsNumber(component.f.score)
          /\ InRange(component.f.score)

\* fix_analysis_structure lines 245-261: one category.
SalvagedComponent(section) ==
    Dict([score |-> IF IsNumber(section.f.score) THEN section.f.score ELSE Num(0),
          matches |-> IF IsList(section.f.matches) THEN section.f.matches ELSE List(""),
          gaps |-> IF IsList(section.f.gaps) THEN section.f.gaps ELSE List("")])

\* The writes of fix_analysis_structure into the instance default holds.
fix_analysis_into(default, analysis) ==
    [match_score |-> IF IsNumber(analysis.match_score)
                     THEN analysis.match_score ELSE default.match_score,
     analysis |->
        [k |-> "dict",
         c |-> [key \in analysis_keys |->
                  IF analysis.analysis.k = "dict" /\ analysis.analysis.c[key].k = "dict"
                  THEN SalvagedComponent(analysis.analysis.c[key])
                  ELSE default.analysis.c[key]]],
     recommendation |-> IF IsStr(analysis.recommendation)
                        THEN analysis.recommendation ELSE default.recommendation,
     key_strengths |-> IF IsList(analysis.key_strengths)
                       THEN analysis.key_strengths ELSE default.key_strengths,
     areas_for_consideration |-> IF IsList(analysis.areas_for_consideration)
                                 THEN analysis.areas_for_consideration
                                 ELSE default.areas_for_consideration]

\* line 219: the instance is a fresh create_default_analysis()
fix_analysis_structure(analysis) == fix_analysis_into(create_default_analysis, analysis)

\* json.loads gave a value with none of the keys of a match analysis.
NoAnalysisRecord ==
    [match_score |-> Absent,
     analysis |-> [k |-> "absent", c |-> [key \in analysis_keys |-> Missing(ComponentKeys)]],
     recommendation |-> Absent,
     key_strengths |-> Absent,
     areas_for_consideration |-> Absent]

\* ----------------------------------------- ResumeParsingAgent: records
create_empty_structure ==
    [personal_info |-> [name |-> "", email |-> "", phone |-> "", location |-> ""],
     summary |-> "",
     education |-> <<>>,
     experience |-> <<>>,
     skills |-> [technical |-> <<>>, soft |-> <<>>],
     certifications |-> <<>>,
     projects |-> <<>>]

\* A validator for which a summary is data enough.
summary_counts(data) == data.summary # ""

validate_structured_data(data) ==
    LET personal_info_valid == \E key \in DOMAIN data.personal_info : data.personal_info[key] # ""
        arrays_valid == \/ Len(data.education) > 0
                        \/ Len(data.experience) > 0
                        \/ Len(data.skills.technical) > 0
                        \/ Len(data.skills.soft) > 0
                        \/ Len(data.projects) > 0
    IN  personal_info_valid \/ arrays_valid

\* What the template says where a candidate gave nothing.
NotProvided == "Not provided"
NoneListed == "None listed"

Captured(text, placeholders) == IF text \in placeholders THEN "" ELSE text

\* convert_template_to_json.  template_output is given by what each pattern
\* of the function captures in it: the text after NAME:, EMAIL:, PHONE: and
\* LOCATION: and under SUMMARY: ("" when the pattern finds nothing), the
\* Technical: and Soft: lines, and the entries matched under EDUCATION:,
\* EXPERIENCE:, PROJECTS: and CERTIFICATIONS: (each by its first field).
convert_template_to_json(template_output) ==
    [personal_info |->
        [name |-> Captured(template_output.name, {"[Full name of the candidate]", NotProvided}),
         email |-> Captured(template_output.email, {"[Email address]", NotProvided}),
         phone |-> Captured(template_output.phone, {"[Phone number]", NotProvided}),
         location |-> Captured(template_output.location, {"[City, State/Country]", NotProvided})],
     summary |-> Captured(template_output.summary, {"[Brief professional summary]", NotProvided}),
     education |-> template_output.education,
     experience |-> template_output.experience,
     skills |->
        [technical |->
            IF Captured(template_output.technical,
                        {"[List all technical skills]", NotProvided, NoneListed}) = ""
            THEN <<>> ELSE <<template_output.technical>>,
         soft |->
            IF Captured(template_output.soft,
                        {"[List all soft skills]", NotProvided, NoneListed}) = ""
            THEN <<>> ELSE <<template_output.soft>>],
     certifications |->
        SelectSeq(template_output.certifications,
                  LAMBDA name : name \notin {"", "[Certification name]", NotProvided, NoneListed}),
     projects |->
        SelectSeq(template_output.projects,
                  LAMBDA name : name \notin {"", "[Project name]", NotProvided, NoneListed})]

\* ------------------------------------------------------------------ inputs
\* Decision objects a language model may write.
LLMList == List("llm")

GoodRest ==
    [rationale |-> Dict([key_strengths |-> LLMList, concerns |-> LLMList,
                         risk_factors |-> LLMList]),
     recommendations |-> Dict([interview_focus |-> LLMList, skill_verification |-> LLMList,
                               discussion_points |-> LLMList]),
     hiring_manager_notes |-> Dict([salary_band_fit |-> Str("within band"),
                                    growth_trajectory |-> Str("steep"),
                                    team_fit_considerations |-> Str("fits"),
                                    onboarding_requirements |-> LLMList]),
     next_steps |-> Dict([immediate_actions |-> LLMList, required_approvals |-> LLMList,
                          timeline_recommendation |-> Str("two weeks")])]

RestVariants ==
    {GoodRest,
     [GoodRest EXCEPT !.rationale = Missing(RationaleKeys)],
     [GoodRest EXCEPT !.rationale.f.key_strengths = Str("strong")],
     [GoodRest EXCEPT !.rationale.f.concerns = Absent],
     [GoodRest EXCEPT !.recommendations = NotADict(RecommendationKeys)],
     [GoodRest EXCEPT !.hiring_manager_notes.f.onboarding_requirements = Str("none")],
     [GoodRest EXCEPT !.hiring_manager_notes.f.salary_band_fit = Num(3)],
     [GoodRest EXCEPT !.next_steps.f.timeline_recommendation = Absent]}

StatusValues == {Str("PROCEED"), Str("MAYBE"), Absent}
ConfidenceValues == {Num(80), Num(0), Num(100), Num(150), Num(-1), Str("high"), Absent}
StageValues == {Str("TECHNICAL"), Str("ONSITE"), Absent}

DecisionSections ==
    {Dict([status |-> s, confidence_score |-> c, interview_stage |-> g]) :
        s \in StatusValues, c \in ConfidenceValues, g \in StageValues}
    \cup {Missing(DecisionKeys), NotADict(DecisionKeys)}

DecisionRecord(d, r) ==
    [decision |-> d, rationale |-> r.rationale, recommendations |-> r.recommendations,
     hiring_manager_notes |-> r.hiring_manager_notes, next_steps |-> r.next_steps]

DecisionRecords == {DecisionRecord(d, r) : d \in DecisionSections, r \in RestVariants}

\* The decision objects the stage is run on: valid, salvageable and not.
StageDecisionRecords ==
    {DecisionRecord(Dict([status |-> Str("PROCEED"), confidence_score |-> c,
                          interview_stage |-> g]), r) :
        c \in {Num(80), Num(150), Str("high")},
        g \in {Str("TECHNICAL"), Str("ONSITE")},
        r \in {GoodRest, [GoodRest EXCEPT !.rationale = Missing(RationaleKeys)]}}

\* Match analyses a language model may write.
GoodComponent == Dict([score |-> Num(72), matches |-> LLMList, gaps |-> LLMList])

ComponentVariants ==
    {GoodComponent,
     [GoodComponent EXCEPT !.f.score = Num(150)],
     [GoodComponent EXCEPT !.f.score = Str("high")],
     [GoodComponent EXCEPT !.f.matches = Str("python")],
     [GoodComponent EXCEPT !.f.gaps = Absent],
     Missing(ComponentKeys),
     NotADict(ComponentKeys)}

GoodAnalysis ==
    [match_score |-> Num(72),
     analysis |-> [k |-> "dict", c |-> [key \in analysis_keys |-> GoodComponent]],
     recommendation |-> Str("interview"),
     key_strengths |-> LLMList,
     areas_for_consideration |-> LLMList]

TopVariants ==
    {GoodAnalysis,
     [GoodAnalysis EXCEPT !.match_score = Absent],
     [GoodAnalysis EXCEPT !.recommendation = Num(1)],
     [GoodAnalysis EXCEPT !.key_strengths = Absent],
     [GoodAnalysis EXCEPT !.analysis.k = "absent"],
     [GoodAnalysis EXCEPT !.analysis.k = "other"]}

MatchRecords ==
    {[a EXCEPT !.analysis.c.skills = s, !.analysis.c.experience = e,
               !.analysis.c.additional = x] :
        a \in TopVariants, s \in ComponentVariants,
        e \in {GoodComponent, [GoodComponent EXCEPT !.f.score = Num(101)]},
        x \in {GoodComponent, Missing(ComponentKeys)}}

StageMatchRecords ==
    {[a EXCEPT !.analysis.c.skills = s] :
        a \in {GoodAnalysis, [GoodAnalysis EXCEPT !.key_strengths = Absent]},
        s \in {GoodComponent, [GoodComponent EXCEPT !.f.score = Num(150)],
               [GoodComponent EXCEPT !.f.gaps = Absent]}}

\* Template outputs of the resume stage, by what the patterns capture.
Templates ==
    [name : {"", NotProvided, "Jane Doe"},
     email : {"", "jane@example.com"},
     phone : {""},
     location : {""},
     summary : {"", "Engineer"},
     education : {<<>>, <<"BSc">>},
     experience : {<<>>, <<"Engineer">>},
     technical : {"", NoneListed, "python"},
     soft : {"", "teamwork"},
     certifications : {<<>>, <<"AWS">>},
     projects : {<<>>, <<NotProvided>>, <<"Portal">>}]

EmptyTemplate ==
    [name |-> "", email |-> "", phone |-> "", location |-> "", summary |-> "",
     education |-> <<>>, experience |-> <<>>, technical |-> "", soft |-> "",
     certifications |-> <<>>, projects |-> <<>>]

\* Completions handed to match_job and generate_decision: a core of at most
\* MaxBody tokens, bare, inside a fenced block, or inside prose.
BodyTokens == {OBJ, LB, RB, COMMA, WCH}
Prefixes == {<<>>, <<FENCEJSON, NL>>, <<WCH, SP>>}
Suffixes == {<<>>, <<NL, FENCE>>, <<SP, WCH>>}
StageTexts ==
    {pre \o body \o post :
        pre \in Prefixes, body \in SeqsUpTo(BodyTokens, MaxBody), post \in Suffixes}

HasObj(text) == \E i \in 1..Len(text) : text[i] = OBJ

\* Texts the repair engines are run on, token by token.
\* and on longer ones: an object as a language model writes it, alone, in a
\* list, with a line break or an apostrophe inside a string, or cut off
\* inside a string; each also with prose around it.
ObjectWithLineBreak == <<LB, DQ, WCH, DQ, COLON, DQ, WCH, NL, WCH, DQ, RB>>
ObjectWithApostrophe == <<LB, DQ, WCH, DQ, COLON, DQ, WCH, SQ, WCH, DQ, RB>>
ObjectCutInString == <<LB, DQ, WCH, DQ, COLON, DQ, RB>>

Prose == <<WCH, SP, WCH>>

LongTexts ==
    {pre \o mid \o post :
        pre \in {<<>>, Prose \o <<SP>>},
        mid \in {<<OBJ>>, <<LS, OBJ, RS>>, ObjectWithLineBreak, ObjectWithApostrophe,
                 ObjectCutInString},
        post \in {<<>>, <<SP>> \o Prose}}

RepairTexts == SeqsUpTo(CharTokens, MaxLen) \cup LongTexts

\* What an invocation meets: the completion when the collaborator returns
\* (none when it raises), the object the completion holds, the template the
\* resume model writes.
Completions(g) == IF g = "raise" THEN {<<>>} ELSE StageTexts

ObjectsOf(text, records, none) == IF HasObj(text) THEN records ELSE {none}

ResumeTemplates(resume_text, g) ==
    IF resume_text = "" \/ g = "raise" THEN {EmptyTemplate} ELSE Templates

\* ------------------------------------------------------------------- state
VARIABLES
    stage,          \* the entry point invoked, or the pure function applied
    pc,             \* where the invocation stands: start, loop, done
    gen,            \* what the generation collaborator does: "text" or "raise"
    completion,     \* the text it returns
    payload,        \* the record the object "P" of the text holds; the inputs of parse_resume
    cleaned_json,   \* the local of that name; Unbound before its first assignment
    attempt,        \* the loop variable of the retry loop
    result,         \* the value returned; None before
    outcome,        \* running, returned, or raised (an exception left the entry point)
    how,            \* the return statement taken: parsed, salvaged, default, unvalidated
    calls,          \* how often each step ran in this invocation
    invocations     \* the stage calls of an orchestrator run, in order, with what each received and returned

vars == <<stage, pc, gen, completion, payload, cleaned_json, attempt, result, outcome, how, calls,
         invocations>>

Unbound == <<"unbound">>

NoCalls == [gen |-> 0, clean |-> 0, parse |-> 0, validate |-> 0, salvage |-> 0, attempts |-> 0]

Fresh ==
    /\ pc = "start"
    /\ cleaned_json = Unbound
    /\ attempt = 0
    /\ result = None
    /\ outcome = "running"
    /\ how = ""
    /\ calls = NoCalls
    /\ invocations = <<>>

\* The record json.loads returns for a text that parses.
AsDecision(text, p) == IF Loads(text) = <<OBJ>> THEN p ELSE NoDecisionRecord

AsAnalysis(text, p) ==
    IF Loads(text) = <<OBJ>> THEN p
    ELSE IF Loads(text) = <<DEFOBJ>> THEN create_default_analysis
    ELSE NoAnalysisRecord

\* ------------------------------------------------------- exception handlers
\* The exceptions of the model: "APIError" (make_request or get_completion
\* raised), "ValueError" (parse_resume line 29) and "UnboundLocalError" (a
\* local read before its assignment).  Each is an Exception.
\* A handler written for the parse error alone.
handles_decode_errors_only(exc) == exc = "JSONDecodeError"

RP_handles(exc) == TRUE          \* parse_resume line 64: except Exception
JM_handles(exc) == TRUE          \* match_job line 213: except Exception
DF_handles(exc) == TRUE          \* generate_decision lines 347 and 407: except Exception

\* A request that is sent again when the first answer is slow.
requested_twice(c) == [c EXCEPT !.gen = @ + 2]

\* self.openrouter.make_request(...), once: parse_resume line 38, match_job
\* line 163, generate_decision line 337.
Requested(c) == [c EXCEPT !.gen = @ + 1]

\* A loop that runs once more.
one_more_attempt == 3 + 1

\* match_job line 176, generate_decision line 363
max_attempts == 3

Return(value, kind) ==
    /\ result' = value
    /\ outcome' = "returned"
    /\ how' = kind
    /\ pc' = "done"

Propagate ==
    /\ result' = None
    /\ outcome' = "raised"
    /\ how' = ""
    /\ pc' = "done"

Handle(caught, default) == IF caught THEN Return(default, "default") ELSE Propagate

\* The text the next attempt parses after a json.JSONDecodeError in the retry
\* loop (match_job lines 200-208, generate_decision lines 390-402): the text
\* itself, or the text with a quote or a comma inserted at the position the
\* error names, which the parser of the model does not keep; any position is
\* allowed.  No run gets here: see LoopTextParses.
RetryTexts(text) ==
    {text} \cup {InsertAt(text, p, c) : p \in 0..Len(text), c \in {DQ, COMMA}}

\* ---------------------------------------------- ResumeParsingAgent.parse_resume
\* A parse_resume that replaces a record failing validation by the default.
default_when_invalid(structured_data) ==
    IF validate_structured_data(structured_data) THEN structured_data
    ELSE create_empty_structure

\* lines 59-62: validation only prints a warning; the record is returned.
parse_resume_result(structured_data) == structured_data

\* parse_resume(resume_text), with what the collaborator does (g) and the
\* template it writes.
parse_resume ==
    /\ stage = "idle"
    /\ \E resume_text \in {"", "resume"}, g \in {"text", "raise"} :
       \E template \in ResumeTemplates(resume_text, g) :
          /\ stage' = "resume"
          /\ gen' = g
          /\ payload' = [resume_text |-> resume_text, template |-> template]
          /\ IF resume_text = ""
             THEN /\ calls' = calls
                  /\ Handle(RP_handles("ValueError"), create_empty_structure)
             ELSE IF g = "raise"
             THEN /\ calls' = Requested(calls)
                  /\ Handle(RP_handles("APIError"), create_empty_structure)
             ELSE LET structured_data == convert_template_to_json(template) IN
                  /\ calls' = [Requested(calls) EXCEPT !.validate = @ + 1]
                  /\ Return(parse_resume_result(structured_data),
                            IF validate_structured_data(structured_data)
                            THEN "parsed" ELSE "unvalidated")
    /\ UNCHANGED <<completion, cleaned_json, attempt, invocations>>

\* -------------------------------------------------- JobMatchingAgent.match_job
\* line 189: the salvaged analysis is returned when it validates
MJ_keep_salvaged(match_analysis) == validate_match_analysis(match_analysis)

\* lines 162-173: the request, and the repair of the completion
match_job_call ==
    /\ stage = "idle"
    /\ \E g \in {"text", "raise"} :
       \E text \in Completions(g) :
       \E object \in ObjectsOf(text, StageMatchRecords, NoAnalysisRecord) :
          /\ stage' = "match"
          /\ gen' = g
          /\ completion' = text
          /\ payload' = object
          /\ IF g = "raise"
             THEN /\ calls' = Requested(calls)
                  /\ cleaned_json' = cleaned_json
                  /\ Handle(JM_handles("APIError"), create_default_analysis)
             ELSE /\ calls' = [Requested(calls) EXCEPT !.clean = @ + 1]
                  /\ cleaned_json' = JM_clean_json_response(text)
                  /\ pc' = "loop"
                  /\ UNCHANGED <<result, outcome, how>>
    /\ UNCHANGED <<attempt, invocations>>

\* lines 177-211: one pass of the retry loop, or the return that follows it
match_job_attempt ==
    /\ stage = "match"
    /\ pc = "loop"
    /\ IF attempt >= max_attempts
       THEN /\ calls' = calls
            /\ Return(create_default_analysis, "default")
            /\ UNCHANGED <<cleaned_json, attempt>>
       ELSE IF ~Parses(cleaned_json)
       THEN /\ calls' = [calls EXCEPT !.parse = @ + 1, !.attempts = @ + 1]
            /\ IF attempt = max_attempts - 1
               THEN /\ Return(create_default_analysis, "default")
                    /\ UNCHANGED <<cleaned_json, attempt>>
               ELSE /\ cleaned_json' \in RetryTexts(cleaned_json)
                    /\ attempt' = attempt + 1
                    /\ UNCHANGED <<pc, result, outcome, how>>
       ELSE LET match_analysis == AsAnalysis(cleaned_json, payload)
                salvaged == fix_analysis_structure(match_analysis)
            IN  /\ cleaned_json' = cleaned_json
                /\ IF validate_match_analysis(match_analysis)
                   THEN /\ calls' = [calls EXCEPT !.parse = @ + 1, !.validate = @ + 1,
                                                  !.attempts = @ + 1]
                        /\ Return(match_analysis, "parsed")
                        /\ attempt' = attempt
                   ELSE IF attempt = max_attempts - 1
                   THEN /\ calls' = [calls EXCEPT !.parse = @ + 1, !.validate = @ + 1,
                                                  !.attempts = @ + 1]
                        /\ Return(create_default_analysis, "default")
                        /\ attempt' = attempt
                   ELSE /\ calls' = [calls EXCEPT !.parse = @ + 1, !.validate = @ + 2,
                                                  !.salvage = @ + 1, !.attempts = @ + 1]
                        /\ IF MJ_keep_salvaged(salvaged)
                           THEN /\ Return(salvaged, "salvaged")
                                /\ attempt' = attempt
                           ELSE /\ attempt' = attempt + 1
                                /\ UNCHANGED <<pc, result, outcome, how>>
    /\ UNCHANGED <<stage, gen, completion, payload, invocations>>

\* ------------------------------------ DecisionFeedbackAgent.generate_decision
\* A loop that returns the salvaged record without validating it again.
keep_unvalidated(decision_data) == TRUE

\* line 374: the salvaged decision is returned when it validates
GD_keep_salvaged(decision_data) == validate_decision(decision_data)

\* lines 335-360: the request and the first json.loads.  When the completion
\* parses but fails validate_decision, control leaves the try statement with
\* cleaned_json never assigned.
generate_decision_on(records) ==
    /\ stage = "idle"
    /\ \E g \in {"text", "raise"} :
       \E text \in Completions(g) :
       \E object \in ObjectsOf(text, records, NoDecisionRecord) :
          /\ stage' = "decision"
          /\ gen' = g
          /\ completion' = text
          /\ payload' = object
          /\ IF g = "raise"
             THEN /\ calls' = Requested(calls)
                  /\ cleaned_json' = cleaned_json
                  /\ Handle(DF_handles("APIError"), create_default_decision)
             ELSE IF Parses(text)
             THEN LET decision_data == AsDecision(text, object) IN
                  /\ calls' = [Requested(calls) EXCEPT !.parse = @ + 1,
                                            !.validate = @ + 1]
                  /\ cleaned_json' = cleaned_json
                  /\ IF validate_decision(decision_data)
                     THEN Return(decision_data, "parsed")
                     ELSE /\ pc' = "loop"
                          /\ UNCHANGED <<result, outcome, how>>
             ELSE LET cleaned == DF_clean_json_response(text) IN
                  /\ calls' = [Requested(calls) EXCEPT !.parse = @ + 1, !.clean = @ + 1]
                  /\ IF cleaned.raised
                     THEN /\ cleaned_json' = cleaned_json
                          /\ Handle(DF_handles("UnboundLocalError"),
                                    create_default_decision)
                     ELSE /\ cleaned_json' = cleaned.text
                          /\ pc' = "loop"
                          /\ UNCHANGED <<result, outcome, how>>
    /\ UNCHANGED <<attempt, invocations>>

\* generate_decision on the decision objects of the stage machine
generate_decision_call == generate_decision_on(StageDecisionRecords)

\* lines 364-405: one pass of the retry loop, or the return that follows it.
\* Line 367 reads cleaned_json: UnboundLocalError when it was never assigned,
\* which is no json.JSONDecodeError and reaches the handler of line 407.
generate_decision_attempt ==
    /\ stage = "decision"
    /\ pc = "loop"
    /\ IF attempt >= max_attempts
       THEN /\ calls' = calls
            /\ Return(create_default_decision, "default")
            /\ UNCHANGED <<cleaned_json, attempt>>
       ELSE IF cleaned_json = Unbound
       THEN /\ calls' = [calls EXCEPT !.attempts = @ + 1]
            /\ Handle(DF_handles("UnboundLocalError"), create_default_decision)
            /\ UNCHANGED <<cleaned_json, attempt>>
       ELSE IF ~Parses(cleaned_json)
       THEN /\ calls' = [calls EXCEPT !.parse = @ + 1, !.attempts = @ + 1]
            /\ IF attempt = max_attempts - 1
               THEN /\ Return(create_default_decision, "default")
                    /\ UNCHANGED <<cleaned_json, attempt>>
               ELSE /\ cleaned_json' \in RetryTexts(cleaned_json)
                    /\ attempt' = attempt + 1
                    /\ UNCHANGED <<pc, result, outcome, how>>
       ELSE LET decision_data == AsDecision(cleaned_json, payload)
                salvaged == fix_decision_structure(decision_data)
            IN  /\ cleaned_json' = cleaned_json
                /\ IF validate_decision(decision_data)
                   THEN /\ calls' = [calls EXCEPT !.parse = @ + 1, !.validate = @ + 1,
                                                  !.attempts = @ + 1]
                        /\ Return(decision_data, "parsed")
                        /\ attempt' = attempt
                   ELSE /\ calls' = [calls EXCEPT !.parse = @ + 1, !.validate = @ + 2,
                                                  !.salvage = @ + 1, !.attempts = @ + 1]
                        /\ IF GD_keep_salvaged(salvaged)
                           THEN /\ Return(salvaged, "salvaged")
                                /\ attempt' = attempt
                           ELSE IF attempt = max_attempts - 1
                           THEN /\ Return(create_default_decision, "default")
                                /\ attempt' = attempt
                           ELSE /\ attempt' = attempt + 1
                                /\ UNCHANGED <<pc, result, outcome, how>>
    /\ UNCHANGED <<stage, gen, completion, payload, invocations>>

\* ------------------------------------------------------ the stage machine
\* The agents are constructed and no entry point was invoked yet.
Init ==
    /\ stage = "idle"
    /\ gen = "text"
    /\ completion = <<>>
    /\ payload = None
    /\ Fresh

Next ==
    \/ parse_resume
    \/ match_job_call
    \/ match_job_attempt
    \/ generate_decision_call
    \/ generate_decision_attempt

Spec == Init /\ [][Next]_vars

\* An invocation runs to its end: nothing suspends an entry point.
FairSpec == Spec /\ WF_vars(Next)

\* Every text the retry loops parse was returned by clean_json_response
\* after json.loads accepted it, so their JSONDecodeError branches never run.
LoopTextParses == pc = "loop" => (cleaned_json = Unbound \/ Parses(cleaned_json))

\* -------------------------------------------- the repair engines, on texts
InitRepair ==
    /\ stage = "repair"
    /\ gen = "text"
    /\ completion \in RepairTexts
    /\ payload = None
    /\ Fresh

\* JobMatchingAgent.clean_json_response(completion)
RepairJobMatch ==
    /\ stage = "repair"
    /\ pc = "start"
    /\ cleaned_json' = JM_clean_json_response(completion)
    /\ outcome' = "returned"
    /\ pc' = "jm_done"
    /\ calls' = [calls EXCEPT !.clean = @ + 1]
    /\ UNCHANGED <<stage, gen, completion, payload, attempt, result, how, invocations>>

\* DecisionFeedbackAgent.clean_json_response(completion)
RepairDecision ==
    /\ stage = "repair"
    /\ pc = "start"
    /\ LET cleaned == DF_clean_json_response(completion) IN
       /\ cleaned_json' = IF cleaned.raised THEN Unbound ELSE cleaned.text
       /\ outcome' = IF cleaned.raised THEN "raised" ELSE "returned"
    /\ pc' = "df_done"
    /\ calls' = [calls EXCEPT !.clean = @ + 1]
    /\ UNCHANGED <<stage, gen, completion, payload, attempt, result, how, invocations>>

\* JobMatchingAgent.clean_json_response(completion) of ATS With pydantic
RepairPydantic ==
    /\ stage = "repair"
    /\ pc = "start"
    /\ cleaned_json' = PYD_clean_json_response(completion)
    /\ outcome' = "returned"
    /\ pc' = "pyd_done"
    /\ calls' = [calls EXCEPT !.clean = @ + 1]
    /\ UNCHANGED <<stage, gen, completion, payload, attempt, result, how, invocations>>

NextRepair == RepairJobMatch \/ RepairDecision \/ RepairPydantic

SpecRepair == InitRepair /\ [][NextRepair]_vars

\* ------------------------------------------- the salvage passes, on records
\* The records convert_template_to_json builds, and the empty structure.
ResumeRecords ==
    {convert_template_to_json(template) : template \in Templates}
        \cup {create_empty_structure}

InitRecords ==
    /\ \/ stage = "decision_record" /\ payload \in DecisionRecords
       \/ stage = "analysis_record" /\ payload \in MatchRecords
       \/ stage = "resume_record" /\ payload \in ResumeRecords
    /\ gen = "text"
    /\ completion = <<>>
    /\ Fresh

\* fix_decision_structure(payload)
SalvageDecision ==
    /\ stage = "decision_record"
    /\ pc = "start"
    /\ result' = fix_decision_structure(payload)
    /\ outcome' = "returned"
    /\ pc' = "done"
    /\ calls' = [calls EXCEPT !.salvage = @ + 1]
    /\ UNCHANGED <<stage, gen, completion, payload, cleaned_json, attempt, how, invocations>>

\* fix_analysis_structure(payload)
SalvageAnalysis ==
    /\ stage = "analysis_record"
    /\ pc = "start"
    /\ result' = fix_analysis_structure(payload)
    /\ outcome' = "returned"
    /\ pc' = "done"
    /\ calls' = [calls EXCEPT !.salvage = @ + 1]
    /\ UNCHANGED <<stage, gen, completion, payload, cleaned_json, attempt, how, invocations>>

Validated(valid) ==
    /\ how' = IF valid THEN "valid" ELSE "invalid"
    /\ outcome' = "returned"
    /\ pc' = "validated"
    /\ calls' = [calls EXCEPT !.validate = @ + 1]
    /\ UNCHANGED <<stage, gen, completion, payload, cleaned_json, attempt, result, invocations>>

\* validate_decision(payload)
ValidateDecision ==
    /\ stage = "decision_record"
    /\ pc = "start"
    /\ Validated(validate_decision(payload))

\* validate_match_analysis(payload)
ValidateAnalysis ==
    /\ stage = "analysis_record"
    /\ pc = "start"
    /\ Validated(validate_match_analysis(payload))

\* validate_structured_data(payload)
ValidateResume ==
    /\ stage = "resume_record"
    /\ pc = "start"
    /\ Validated(validate_structured_data(payload))

NextRecords ==
    \/ SalvageDecision
    \/ SalvageAnalysis
    \/ ValidateDecision
    \/ ValidateAnalysis
    \/ ValidateResume

SpecRecords == InitRecords /\ [][NextRecords]_vars

\* ------------------------------------------------ the pipeline orchestrators
\* process_files (ATS-Portal/app.py) and process_resume (ATS With pydantic and
\* outputs markdown/app.py).  A run is followed from one blocking stage call to
\* the next.  result holds what the run leaves behind: the locals
\* parsed_resume, match_analysis and decision of process_files (unbound until
\* assigned), the st.session_state of process_resume, which outlives the run.
\* File extraction and text cleaning are collaborators: extract_text returns
\* or raises, clean_text returns some text, possibly the empty one.
Orchestrators == {"process_files", "process_resume"}

CleanTexts == {"", "job description"}

\* The values the stage agents return to the orchestrator.
ParseResumeReturns ==
    {parse_resume_result(convert_template_to_json(template)) :
        template \in {EmptyTemplate, [EmptyTemplate EXCEPT !.name = "Jane Doe"]}}

MatchJobReturns ==
    {create_default_analysis} \cup {a \in {GoodAnalysis} : validate_match_analysis(a)}

GenerateDecisionReturns ==
    {create_default_decision} \cup {d \in StageDecisionRecords : validate_decision(d)}

\* ParsedResume(), MatchAnalysis() and DecisionFeedback(): the models with
\* every field at its default.
EmptyParsedResume == [model |-> "ParsedResume"]
EmptyMatchAnalysis == [model |-> "MatchAnalysis"]
EmptyDecisionFeedback == [model |-> "DecisionFeedback"]

\* A local that holds a record once assigned, before its assignment.
UnboundLocal == [unbound |-> TRUE]

\* process_files: no local is bound when the function is entered
NoLocals ==
    [parsed_resume |-> UnboundLocal, match_analysis |-> UnboundLocal,
     decision |-> UnboundLocal]

\* initialize_session_state, app.py lines 49-60
InitialSessionState ==
    [parsed_resume |-> EmptyParsedResume, match_analysis |-> EmptyMatchAnalysis,
     decision |-> EmptyDecisionFeedback, job_description |-> ""]

\* A handler that leaves the session as the exception found it.
session_as_found(session_state) == session_state

\* process_resume lines 543-550: the handler resets the three records
session_reset(session_state) ==
    [session_state EXCEPT !.parsed_resume = EmptyParsedResume,
                          !.match_analysis = EmptyMatchAnalysis,
                          !.decision = EmptyDecisionFeedback]

\* process_resume lines 538-541: no job description
session_without_match(session_state) ==
    [session_state EXCEPT !.match_analysis = EmptyMatchAnalysis,
                          !.decision = EmptyDecisionFeedback]

\* job_desc_available = tmp_job_desc_path or cleaned_job_desc
job_desc_available(inputs) == inputs.tmp_job_desc_path \/ inputs.cleaned_job_desc # ""

\* match_job(parsed_resume, cleaned_job_desc)
match_job_arguments(parsed_resume, cleaned_job_desc) ==
    [candidate_profile |-> parsed_resume, job_description |-> cleaned_job_desc]

\* A call that hands the analysis over where the profile belongs.
analysis_as_profile(parsed_resume, match_analysis, cleaned_job_desc) ==
    [candidate_profile |-> match_analysis, match_analysis |-> match_analysis,
     job_requirements |-> cleaned_job_desc]

\* generate_decision(candidate_profile=parsed_resume,
\*                   match_analysis=match_analysis, job_requirements=cleaned_job_desc)
generate_decision_arguments(parsed_resume, match_analysis, cleaned_job_desc) ==
    [candidate_profile |-> parsed_resume, match_analysis |-> match_analysis,
     job_requirements |-> cleaned_job_desc]

Invoked(name, received, returned) ==
    invocations' = Append(invocations,
                          [stage |-> name, received |-> received, returned |-> returned])

\* The run is over: the function returned, after its handler ran when an
\* exception was caught (outcome error).
RunEnds(how_it_ended) ==
    /\ pc' = "done"
    /\ outcome' = how_it_ended

\* Both entry points, up to the first stage call: the early returns for a
\* missing resume file or API key are the guard under which a run starts; the
\* job description comes from the uploaded file, else from the pasted text.
RunBegins(left_behind) ==
    /\ pc \in {"start", "done"}
    /\ \E job_desc_file_obj \in BOOLEAN, job_desc_pasted_text \in {"", "job"},
          cleaned \in CleanTexts :
          LET use_pasted == ~job_desc_file_obj /\ job_desc_pasted_text # "" IN
          /\ ~use_pasted => cleaned = ""
          /\ payload' = [job_desc_file_obj |-> job_desc_file_obj,
                         job_desc_pasted_text |-> job_desc_pasted_text,
                         tmp_job_desc_path |-> job_desc_file_obj,
                         cleaned_job_desc |-> cleaned]
          /\ result' = IF stage = "process_resume" /\ use_pasted
                       THEN [left_behind EXCEPT !.job_description = job_desc_pasted_text]
                       ELSE left_behind
    /\ invocations' = <<>>
    /\ pc' = "parse"
    /\ outcome' = "running"
    /\ UNCHANGED <<stage, gen, completion, cleaned_json, attempt, how, calls>>

\* process_files lines 49-88
process_files_begin ==
    /\ stage = "process_files"
    /\ RunBegins(NoLocals)

\* process_files lines 90-119: the resume text is extracted and parsed; the
\* function ends here when there is no job description
process_files_parse ==
    /\ stage = "process_files"
    /\ pc = "parse"
    /\ \/ /\ RunEnds("error")                 \* extract_text raised, lines 177-178
          /\ UNCHANGED <<result, invocations>>
       \/ \E parsed_resume \in ParseResumeReturns :
             /\ Invoked("parse_resume", [resume_text |-> "resume"], parsed_resume)
             /\ result' = [result EXCEPT !.parsed_resume = parsed_resume]
             /\ IF job_desc_available(payload)
                THEN pc' = "match" /\ outcome' = outcome
                ELSE RunEnds("returned")
    /\ UNCHANGED <<stage, gen, completion, payload, cleaned_json, attempt, how, calls>>

\* process_files lines 120-143
process_files_match ==
    /\ stage = "process_files"
    /\ pc = "match"
    /\ \/ /\ payload.tmp_job_desc_path         \* extract_text raised, lines 177-178
          /\ RunEnds("error")
          /\ UNCHANGED <<payload, result, invocations>>
       \/ \E cleaned_job_desc \in CleanTexts, match_analysis \in MatchJobReturns :
             /\ ~payload.tmp_job_desc_path => cleaned_job_desc = payload.cleaned_job_desc
             /\ payload' = [payload EXCEPT !.cleaned_job_desc = cleaned_job_desc]
             /\ Invoked("match_job",
                        match_job_arguments(result.parsed_resume, cleaned_job_desc),
                        match_analysis)
             /\ result' = [result EXCEPT !.match_analysis = match_analysis]
             /\ pc' = "decide"
             /\ outcome' = outcome
    /\ UNCHANGED <<stage, gen, completion, cleaned_json, attempt, how, calls>>

\* process_files lines 145-175
process_files_decide ==
    /\ stage = "process_files"
    /\ pc = "decide"
    /\ \E decision \in GenerateDecisionReturns :
          /\ Invoked("generate_decision",
                     generate_decision_arguments(result.parsed_resume,
                                                 result.match_analysis,
                                                 payload.cleaned_job_desc),
                     decision)
          /\ result' = [result EXCEPT !.decision = decision]
    /\ RunEnds("returned")
    /\ UNCHANGED <<stage, gen, completion, payload, cleaned_json, attempt, how, calls>>

\* process_resume lines 453-489
process_resume_begin ==
    /\ stage = "process_resume"
    /\ RunBegins(result)

\* process_resume lines 491-507 and, without a job description, 538-541
process_resume_parse ==
    /\ stage = "process_resume"
    /\ pc = "parse"
    /\ \/ /\ RunEnds("error")     \* extract_text, parse_resume or ParsedResume(**..) raised
          /\ result' = session_reset(result)
          /\ UNCHANGED invocations
       \/ \E parsed_resume \in ParseResumeReturns :
             LET stored == [result EXCEPT !.parsed_resume = parsed_resume] IN
             /\ Invoked("parse_resume", [resume_text |-> "resume"], parsed_resume)
             /\ IF job_desc_available(payload)
                THEN /\ result' = stored
                     /\ pc' = "match"
                     /\ outcome' = outcome
                ELSE /\ result' = session_without_match(stored)
                     /\ RunEnds("returned")
    /\ UNCHANGED <<stage, gen, completion, payload, cleaned_json, attempt, how, calls>>

\* process_resume lines 508-521
process_resume_match ==
    /\ stage = "process_resume"
    /\ pc = "match"
    /\ \/ /\ RunEnds("error")     \* extract_text, match_job or MatchAnalysis(**..) raised
          /\ result' = session_reset(result)
          /\ UNCHANGED <<payload, invocations>>
       \/ \E cleaned_job_desc \in CleanTexts, match_analysis \in MatchJobReturns :
             /\ ~payload.tmp_job_desc_path => cleaned_job_desc = payload.cleaned_job_desc
             /\ payload' = [payload EXCEPT !.cleaned_job_desc = cleaned_job_desc]
             /\ Invoked("match_job",
                        match_job_arguments(result.parsed_resume, cleaned_job_desc),
                        match_analysis)
             /\ result' = [result EXCEPT !.match_analysis = match_analysis]
             /\ pc' = "decide"
             /\ outcome' = outcome
    /\ UNCHANGED <<stage, gen, completion, cleaned_json, attempt, how, calls>>

\* process_resume lines 523-537
process_resume_decide ==
    /\ stage = "process_resume"
    /\ pc = "decide"
    /\ \/ /\ RunEnds("error")     \* generate_decision or DecisionFeedback(**..) raised
          /\ result' = session_reset(result)
          /\ UNCHANGED invocations
       \/ \E decision \in GenerateDecisionReturns :
             /\ Invoked("generate_decision",
                        generate_decision_arguments(result.parsed_resume,
                                                    result.match_analysis,
                                                    payload.cleaned_job_desc),
                        decision)
             /\ result' = [result EXCEPT !.decision = decision]
             /\ RunEnds("returned")
    /\ UNCHANGED <<stage, gen, completion, payload, cleaned_json, attempt, how, calls>>

\* process_resume lines 457-464: no resume file or an API key missing; the
\* function returns before its try statement
process_resume_rejected ==
    /\ stage = "process_resume"
    /\ pc \in {"start", "done"}
    /\ \E job_desc_file_obj \in BOOLEAN, job_desc_pasted_text \in {"", "job"} :
          payload' = [job_desc_file_obj |-> job_desc_file_obj,
                      job_desc_pasted_text |-> job_desc_pasted_text,
                      tmp_job_desc_path |-> FALSE,
                      cleaned_job_desc |-> ""]
    /\ invocations' = <<>>
    /\ RunEnds("rejected")
    /\ UNCHANGED <<stage, gen, completion, result, cleaned_json, attempt, how, calls>>

\* The page is loaded and no run was started yet.
InitPipeline ==
    /\ \/ stage = "process_files" /\ result = NoLocals
       \/ stage = "process_resume" /\ result = InitialSessionState
    /\ pc = "start"
    /\ gen = "text"
    /\ completion = <<>>
    /\ payload = None
    /\ cleaned_json = Unbound
    /\ attempt = 0
    /\ outcome = "running"
    /\ how = ""
    /\ calls = NoCalls
    /\ invocations = <<>>

NextPipeline ==
    \/ process_files_begin
    \/ process_files_parse
    \/ process_files_match
    \/ process_files_decide
    \/ process_resume_begin
    \/ process_resume_parse
    \/ process_resume_match
    \/ process_resume_decide
    \/ process_resume_rejected

SpecPipeline == InitPipeline /\ [][NextPipeline]_vars

\* ------------------------------------------ ParserAgent.get_candidate_level
\* oa_module final/agents/parser_agent.py lines 100-114; the copy in ATS With
\* pydantic and outputs markdown/agents/resume_parsing_agent.py lines 87-101
\* is the same text.
\* A duration string is a sequence of pieces: a blank, a numeral or a word.
\* Numerals carry their value in hundredths of a year.  The numerals of the
\* model are multiples of a quarter, whose float sums are exact, and 1.99,
\* which no sum of them brings onto a threshold: on these inputs the float
\* total and the total in hundredths classify alike.
MaxEntries == 3

Blank == [blank |-> TRUE]
Numeral(h) == [numeral |-> h]
Word(w) == [word |-> w]

IsBlank(piece) == DOMAIN piece = {"blank"}
IsNumeral(piece) == DOMAIN piece = {"numeral"}

\* str.split(): the maximal runs of pieces that are not blanks
RECURSIVE SplitFrom(_, _, _)
SplitFrom(s, i, run) ==
    IF i > Len(s) THEN (IF run = <<>> THEN <<>> ELSE <<run>>)
    ELSE IF IsBlank(s[i])
         THEN (IF run = <<>> THEN <<>> ELSE <<run>>) \o SplitFrom(s, i + 1, <<>>)
         ELSE SplitFrom(s, i + 1, Append(run, s[i]))

Split(s) == SplitFrom(s, 1, <<>>)

\* float(token): the value of a token that is one numeral, ValueError otherwise
IsFloat(token) == Len(token) = 1 /\ IsNumeral(token[1])

\* An experience entry: a dict with or without the key duration.
NoDuration == [has_duration |-> FALSE, duration |-> <<>>]
WithDuration(s) == [has_duration |-> TRUE, duration |-> s]

\* float(exp.get("duration", "0").split()[0]), lines 104-106: the hundredths
\* the entry adds, or the exception it raises (IndexError for a string with
\* no token, ValueError for a first token that is no numeral)
Contribution(exp) ==
    LET tokens == Split(exp.duration) IN
    IF ~exp.has_duration THEN [raised |-> "", value |-> 0]
    ELSE IF tokens = <<>> THEN [raised |-> "IndexError", value |-> 0]
    ELSE IF ~IsFloat(tokens[1]) THEN [raised |-> "ValueError", value |-> 0]
    ELSE [raised |-> "", value |-> tokens[1][1].numeral]

\* sum(...), lines 103-107: the first exception ends the call
RECURSIVE SumFrom(_, _, _)
SumFrom(experience, i, total) ==
    IF i > Len(experience) THEN [raised |-> "", value |-> total]
    ELSE LET c == Contribution(experience[i]) IN
         IF c.raised # "" THEN c
         ELSE SumFrom(experience, i + 1, total + c.value)

total_experience(experience) == SumFrom(experience, 1, 0)

\* Thresholds that take the bound itself into the lower level.
level_bounds_inclusive(total) ==
    IF total <= 200 THEN "junior"
    ELSE IF total <= 500 THEN "mid"
    ELSE "senior"

\* lines 109-114, the thresholds 2 and 5 in hundredths
level_of(total) ==
    IF total < 200 THEN "junior"
    ELSE IF total < 500 THEN "mid"
    ELSE "senior"

get_candidate_level(experience) ==
    LET total == total_experience(experience) IN
    IF total.raised # "" THEN [raised |-> total.raised, level |-> ""]
    ELSE [raised |-> "", level |-> level_of(total.value)]

\* Durations a parsed resume carries.
Durations ==
    {<<Numeral(h)>> : h \in {0, 25, 75, 100, 199, 200, 300, 475, 500}}
        \cup {<<Numeral(200), Blank, Word("years")>>,
              <<Blank, Numeral(125), Blank>>,
              <<Word("two"), Blank, Word("years")>>,
              <<Numeral(2), Word("yrs")>>,
              <<>>,
              <<Blank>>}

Experiences ==
    SeqsUpTo({NoDuration} \cup {WithDuration(s) : s \in Durations}, MaxEntries)

InitLevel ==
    /\ stage = "candidate_level"
    /\ payload \in Experiences
    /\ gen = "text"
    /\ completion = <<>>
    /\ Fresh

\* get_candidate_level(parsed_data), with payload as resume.experience
GetCandidateLevel ==
    /\ stage = "candidate_level"
    /\ pc = "start"
    /\ LET r == get_candidate_level(payload) IN
       /\ result' = r
       /\ outcome' = IF r.raised # "" THEN "raised" ELSE "returned"
    /\ pc' = "done"
    /\ UNCHANGED <<stage, gen, completion, payload, cleaned_json, attempt, how, calls,
                   invocations>>

NextLevel == GetCandidateLevel

SpecLevel == InitLevel /\ [][NextLevel]_vars

\* ------------------- JobMatchingAgent._transform_api_response (ATS With pydantic)
\* Values of the raw record json.loads returned: t is the Python type; a
\* number is the fraction n / d; a string is s; a list holds the strings l.
RInt(n) == [t |-> "num", n |-> n, d |-> 1, s |-> "", l |-> <<>>]
RFloat(n, d) == [t |-> "num", n |-> n, d |-> d, s |-> "", l |-> <<>>]
RStr(s) == [t |-> "str", n |-> 0, d |-> 1, s |-> s, l |-> <<>>]
RList(l) == [t |-> "list", n |-> 0, d |-> 1, s |-> "", l |-> l]
RNull == [t |-> "null", n |-> 0, d |-> 1, s |-> "", l |-> <<>>]
RAbsent == [t |-> "absent", n |-> 0, d |-> 1, s |-> "", l |-> <<>>]

\* dict.get(key, default)
Get(v, default) == IF v.t = "absent" THEN default ELSE v

\* the truth value Python gives a value in an if
Truthy(v) ==
    CASE v.t = "num" -> v.n # 0
      [] v.t = "str" -> v.s # ""
      [] v.t = "list" -> v.l # <<>>
      [] OTHER -> FALSE

\* The characters of the strings of the model.
Chars(s) == IF s = "" THEN <<>> ELSE IF s = "ok" THEN <<"o", "k">> ELSE <<s>>

\* for x in v: the items of a list, the characters of a string; a number
\* or None is not iterable (TypeError)
Iterable(v) == v.t \in {"list", "str"}
ItemsOf(v) == IF v.t = "list" THEN v.l ELSE Chars(v.s)

RECURSIVE Gcd(_, _)
Gcd(a, b) == IF b = 0 THEN a ELSE Gcd(b, a % b)

Fraction(n, d) == LET g == Gcd(n, d) IN RFloat(n \div g, d \div g)

\* A score that is passed on as it came.
score_unscaled(v) == v

\* x / 100.0
divided_by_100(v) == Fraction(v.n, v.d * 100)

\* An entry of a details or insights list: the literal prefix of the f-string
\* and the text after it.
Entry(prefix, text) == [prefix |-> prefix, text |-> text]
Plain(text) == Entry("", text)

Prefixed(prefix, items) == [i \in 1..Len(items) |-> Entry(prefix, items[i])]

\* lines 236-245; fails when a truthy matches or gaps is not iterable
CombineFails(matches, gaps) ==
    \/ Truthy(matches) /\ ~Iterable(matches)
    \/ Truthy(gaps) /\ ~Iterable(gaps)

combine_matches_gaps(matches, gaps) ==
    LET combined ==
            (IF Truthy(matches)
             THEN <<Plain("Matches:")>> \o Prefixed("+ ", ItemsOf(matches)) ELSE <<>>)
            \o (IF Truthy(gaps)
                THEN <<Plain("Gaps:")>> \o Prefixed("- ", ItemsOf(gaps)) ELSE <<>>)
    IN  IF combined # <<>> THEN combined ELSE <<Plain("No specific details available")>>

\* A category of the raw analysis: k is dict, absent or other (any value
\* without a get method); f holds score, matches and gaps.
RCategory(score, matches, gaps) ==
    [k |-> "dict", f |-> [score |-> score, matches |-> matches, gaps |-> gaps]]
RCategoryAbsent == [k |-> "absent", f |-> [score |-> RAbsent, matches |-> RAbsent, gaps |-> RAbsent]]
RCategoryOther == [k |-> "other", f |-> [score |-> RAbsent, matches |-> RAbsent, gaps |-> RAbsent]]

\* analysis.get("skills", {}) and the gets on it: a missing category is {}
CategoryFails(category) ==
    \/ category.k = "other"
    \/ Get(category.f.score, RInt(0)).t # "num"
    \/ CombineFails(Get(category.f.matches, RList(<<>>)), Get(category.f.gaps, RList(<<>>)))

\* lines 170-190: one of skills_match, experience_match, education_match
Breakdown(category) ==
    [score |-> divided_by_100(Get(category.f.score, RInt(0))),
     details |-> combine_matches_gaps(Get(category.f.matches, RList(<<>>)),
                                      Get(category.f.gaps, RList(<<>>)))]

\* An insights list that is returned as it was built.
insights_as_built(insights) == insights

\* lines 211-213
ensure_insights(insights) ==
    IF insights = <<>> THEN <<Plain("No additional insights available")>> ELSE insights

\* lines 194-209
BuildInsights(raw_data) ==
    LET recommendation == Get(raw_data.recommendation, RStr(""))
        strengths == Get(raw_data.key_strengths, RList(<<>>))
        considerations == Get(raw_data.areas_for_consideration, RList(<<>>))
    IN  (IF Truthy(recommendation) THEN <<Plain(recommendation.s)>> ELSE <<>>)
        \o (IF Truthy(strengths)
            THEN <<Plain("Key Strengths:")>> \o Prefixed("+ ", ItemsOf(strengths)) ELSE <<>>)
        \o (IF Truthy(considerations)
            THEN <<Plain("Areas for Consideration:")>> \o Prefixed("- ", ItemsOf(considerations))
            ELSE <<>>)

\* lines 223-234: the record returned when anything in the try block raised
TransformErrorRecord ==
    LET failed == [score |-> RFloat(0, 1),
                   details |-> <<Plain("Error transforming API response")>>]
    IN  [overall_match_score |-> RFloat(0, 1),
         skills_match |-> failed, experience_match |-> failed, education_match |-> failed,
         additional_insights |->
            <<Plain("Error occurred while transforming the analysis results")>>]

\* The try block raises: raw_data or analysis has no get method, a score is
\* no number (TypeError on the division), or a truthy value that is iterated
\* is a number.
TransformFails(raw_data) ==
    \/ raw_data.k # "dict"
    \/ Get(raw_data.match_score, RInt(0)).t # "num"
    \/ raw_data.analysis.k = "other"
    \/ \E key \in {"skills", "experience", "education"} :
          CategoryFails(raw_data.analysis.c[key])
    \/ LET strengths == Get(raw_data.key_strengths, RList(<<>>))
           considerations == Get(raw_data.areas_for_consideration, RList(<<>>))
       IN  \/ Truthy(strengths) /\ ~Iterable(strengths)
           \/ Truthy(considerations) /\ ~Iterable(considerations)

\* _transform_api_response(raw_data), lines 146-234
transform_api_response(raw_data) ==
    IF TransformFails(raw_data) THEN TransformErrorRecord
    ELSE [overall_match_score |-> divided_by_100(Get(raw_data.match_score, RInt(0))),
          skills_match |-> Breakdown(raw_data.analysis.c.skills),
          experience_match |-> Breakdown(raw_data.analysis.c.experience),
          education_match |-> Breakdown(raw_data.analysis.c.education),
          additional_insights |-> ensure_insights(BuildInsights(raw_data))]

\* create_default_analysis of this variant, lines 131-144
PYD_create_default_analysis ==
    LET empty_breakdown == [score |-> RFloat(0, 1),
                            details |-> <<Plain("Analysis failed - please try again")>>]
    IN  [overall_match_score |-> RFloat(0, 1),
         skills_match |-> empty_breakdown, experience_match |-> empty_breakdown,
         education_match |-> empty_breakdown,
         additional_insights |-> <<Plain("Analysis failed - please try again")>>]

\* Raw records a language model may write.
RawScores == {RInt(72), RInt(0), RInt(100), RFloat(145, 2), RStr("72"), RNull, RAbsent}

RawLists == {RList(<<"Python">>), RList(<<>>), RAbsent, RNull, RStr("ok"), RInt(5)}

RawSkills ==
    {RCategory(score, matches, gaps) :
        score \in {RInt(85), RAbsent, RStr("high")},
        matches \in RawLists,
        gaps \in {RList(<<"Docker">>), RList(<<>>)}}
    \cup {RCategoryAbsent, RCategoryOther}

RawOthers ==
    {RCategory(RInt(65), RList(<<"Research">>), RList(<<>>)), RCategoryAbsent}

RawAnalyses ==
    {[k |-> "dict",
      c |-> [skills |-> s, experience |-> e, education |-> u, additional |-> RCategoryOther]] :
        s \in RawSkills, e \in RawOthers \cup {RCategoryOther}, u \in RawOthers}
    \cup {[k |-> kind,
           c |-> [key \in analysis_keys |-> RCategoryAbsent]] : kind \in {"absent", "other"}}

RawRecord(k, match_score, analysis, recommendation, key_strengths, areas) ==
    [k |-> k, match_score |-> match_score, analysis |-> analysis,
     recommendation |-> recommendation, key_strengths |-> key_strengths,
     areas_for_consideration |-> areas]

RawRecords ==
    {RawRecord("dict", m, a, r, s, c) :
        m \in RawScores, a \in RawAnalyses,
        r \in {RStr("interview"), RStr(""), RAbsent},
        s \in {RList(<<"ML">>), RList(<<>>), RAbsent, RInt(5), RStr("ok")},
        c \in {RList(<<"DevOps">>), RList(<<>>)}}
    \cup {RawRecord("other", RAbsent,
                    [k |-> "absent", c |-> [key \in analysis_keys |-> RCategoryAbsent]],
                    RAbsent, RAbsent, RAbsent)}

InitTransform ==
    /\ stage = "transform"
    /\ payload \in RawRecords
    /\ gen = "text"
    /\ completion = <<>>
    /\ Fresh

\* _transform_api_response(payload)
TransformApiResponse ==
    /\ stage = "transform"
    /\ pc = "start"
    /\ result' = transform_api_response(payload)
    /\ how' = IF TransformFails(payload) THEN "error" ELSE "transformed"
    /\ outcome' = "returned"
    /\ pc' = "done"
    /\ UNCHANGED <<stage, gen, completion, payload, cleaned_json, attempt, calls,
                   invocations>>

\* create_default_analysis() of this variant
CreateDefaultAnalysis ==
    /\ stage = "transform"
    /\ pc = "start"
    /\ result' = PYD_create_default_analysis
    /\ how' = "default"
    /\ outcome' = "returned"
    /\ pc' = "done"
    /\ UNCHANGED <<stage, gen, completion, payload, cleaned_json, attempt, calls,
                   invocations>>

NextTransform == TransformApiResponse \/ CreateDefaultAnalysis

SpecTransform == InitTransform /\ [][NextTransform]_vars

\* ----------------------------------- the default records as Python objects
\* create_default_analysis and create_default_decision build their dict from
\* a literal at every call; fix_analysis_structure and fix_decision_structure
\* write into the dict one such call gave them.  payload is the heap: the
\* dicts these calls made, in the order they were made.
MaxCalls == 3

\* A default dict kept and handed out again by every call.
cached_instance(objects, literal) ==
    IF \E i \in 1..Len(objects) : objects[i].kind = literal.kind
    THEN [objects |-> objects,
          ref |-> CHOOSE i \in 1..Len(objects) :
                     /\ objects[i].kind = literal.kind
                     /\ \A j \in 1..(i - 1) : objects[j].kind # literal.kind]
    ELSE [objects |-> Append(objects, literal), ref |-> Len(objects) + 1]

\* return {...}: evaluating the dict display makes a new object
\* (job_matching_agent.py line 118, decision_feedback_agent.py line 285)
new_instance(objects, literal) ==
    [objects |-> Append(objects, literal), ref |-> Len(objects) + 1]

AnalysisLiteral == [kind |-> "analysis", content |-> create_default_analysis]
DecisionLiteral == [kind |-> "decision", content |-> create_default_decision]

\* Records handed to the salvage passes.
SalvageAnalyses ==
    {GoodAnalysis, [GoodAnalysis EXCEPT !.match_score = Num(55), !.analysis.k = "other"]}

SalvageDecisions == {d \in StageDecisionRecords : d.rationale.k = "dict"}

InitDefaults ==
    /\ stage = "defaults"
    /\ payload = <<>>
    /\ gen = "text"
    /\ completion = <<>>
    /\ Fresh

DefaultsCall(made, content, name) ==
    /\ stage = "defaults"
    /\ payload' = [made.objects EXCEPT ![made.ref].content = content]
    /\ result' = content
    /\ how' = name
    /\ outcome' = "returned"
    /\ attempt' = attempt + 1
    /\ UNCHANGED <<stage, pc, gen, completion, cleaned_json, calls, invocations>>

\* create_default_analysis()
CallCreateDefaultAnalysis ==
    /\ attempt < MaxCalls
    /\ LET made == new_instance(payload, AnalysisLiteral) IN
       DefaultsCall(made, made.objects[made.ref].content, "create_default_analysis")

\* create_default_decision()
CallCreateDefaultDecision ==
    /\ attempt < MaxCalls
    /\ LET made == new_instance(payload, DecisionLiteral) IN
       DefaultsCall(made, made.objects[made.ref].content, "create_default_decision")

\* fix_analysis_structure(analysis)
CallFixAnalysisStructure ==
    /\ attempt < MaxCalls
    /\ \E analysis \in SalvageAnalyses :
          LET made == new_instance(payload, AnalysisLiteral) IN
          DefaultsCall(made, fix_analysis_into(made.objects[made.ref].content, analysis),
                       "fix_analysis_structure")

\* fix_decision_structure(decision)
CallFixDecisionStructure ==
    /\ attempt < MaxCalls
    /\ \E decision \in SalvageDecisions :
          LET made == new_instance(payload, DecisionLiteral) IN
          DefaultsCall(made, fix_decision_into(made.objects[made.ref].content, decision),
                       "fix_decision_structure")

NextDefaults ==
    \/ CallCreateDefaultAnalysis
    \/ CallCreateDefaultDecision
    \/ CallFixAnalysisStructure
    \/ CallFixDecisionStructure

SpecDefaults == InitDefaults /\ [][NextDefaults]_vars

\* ------------------------------------- the online assessment module (oa_module final)
\* Largest count handed to generate_coding_questions and
\* generate_system_design_questions when they are called on their own.
MaxCount == 3

\* Position of the first token of marks in t from i on, 0 when there is none.
RECURSIVE FirstOf(_, _, _)
FirstOf(t, i, marks) ==
    IF i > Len(t) THEN 0
    ELSE IF t[i] \in marks THEN i
    ELSE FirstOf(t, i + 1, marks)

\* question_generator.py lines 277-280: the text between the first json fence
\* and the next three backticks, else the text before the first three backticks
strip_question_fences(question_text) ==
    LET j == FirstOf(question_text, 1, {FENCEJSON}) IN
    IF j > 0
    THEN LET rest == Slice(question_text, j + 1, Len(question_text))
             k == FirstOf(rest, 1, {FENCE, FENCEJSON})
         IN  IF k > 0 THEN Slice(rest, 1, k - 1) ELSE rest
    ELSE LET k == FirstOf(question_text, 1, {FENCE}) IN
         IF k > 0 THEN Slice(question_text, 1, k - 1) ELSE question_text

\* What the object of a reply holds: whether it carries every field of the
\* question class with a value of the field type, and its type and score.
QuestionTypes == {"coding", "system_design", "behavioral"}
QuestionData == [complete : BOOLEAN, type : QuestionTypes \cup {"quiz"}, score : {5}]

\* CodingQuestion(**question_data), SystemDesignQuestion(**question_data),
\* BehavioralQuestion(**question_data): the instance, or the validation error.
\* The classes are those of models/data_models.py.
Question(class_type, question_data) ==
    IF question_data.complete /\ question_data.type = class_type
    THEN [raised |-> FALSE,
          question |-> [id |-> <<"unique_string">>, type |-> class_type,
                        score |-> question_data.score]]
    ELSE [raised |-> TRUE, question |-> None]

\* The replies of the language model to one prompt.
QuestionTexts ==
    {<<OBJ>>,
     <<FENCEJSON, NL, OBJ, NL, FENCE>>,
     <<WCH, SP, FENCEJSON, NL, OBJ, NL, FENCE, SP, WCH>>,
     <<FENCEJSON, NL, OBJ>>,
     <<FENCE, NL, OBJ, NL, FENCE>>,
     <<OBJ, NL, FENCE>>,
     <<WCH, SP, WCH>>,
     <<LB, DQ, WCH>>,
     <<DIG>>,
     <<>>}

QuestionReplies ==
    {[raises |-> TRUE, text |-> <<>>, data |-> [complete |-> FALSE, type |-> "quiz", score |-> 5]]}
        \cup [raises : {FALSE}, text : QuestionTexts, data : QuestionData]

\* The try body of one iteration, lines 261-285, 318-342 and 375-399
parsed_question(class_type, reply) ==
    IF reply.raises THEN [raised |-> TRUE, question |-> None]
    ELSE IF Loads(Strip(strip_question_fences(reply.text))) # <<OBJ>>
    THEN [raised |-> TRUE, question |-> None]
    ELSE Question(class_type, reply.data)

\* The question of the except branch, lines 290-299, 347-356 and 404-413
default_question(class_type, i) ==
    CASE class_type = "coding" ->
            [id |-> <<"coding", i + 1>>, type |-> "coding", score |-> 10]
      [] class_type = "system_design" ->
            [id |-> <<"design", i + 1>>, type |-> "system_design", score |-> 15]
      [] class_type = "behavioral" ->
            [id |-> <<"behavioral", i + 1>>, type |-> "behavioral", score |-> 10]

\* An iteration that adds nothing when its try body fails.
nothing_on_failure(attempted, default) ==
    IF attempted.raised THEN <<>> ELSE <<attempted.question>>

\* What one iteration appends to questions: lines 285 and 290
appended(attempted, default) ==
    IF attempted.raised THEN <<default>> ELSE <<attempted.question>>

\* The default counts of the three loops, lines 250, 307 and 364
default_count(class_type) == IF class_type = "system_design" THEN 2 ELSE 3

\* A call: the coroutine an async def gives, or the value a def returns.
Called(is_async, value) == [coroutine |-> is_async, value |-> value]

\* await of main.py line 48 and line 73
Await(called) ==
    IF called.coroutine THEN [raised |-> "", value |-> called.value]
    ELSE [raised |-> "TypeError", value |-> None]

RECURSIVE SumScores(_, _)
SumScores(questions, i) ==
    IF i > Len(questions) THEN 0 ELSE questions[i].score + SumScores(questions, i + 1)

\* int(total_score * 0.7), line 231, for totals up to 200: the double product
\* falls just below the integer at 90, 170 and 180
passing_score_of(total_score) ==
    IF total_score \in {90, 170, 180} THEN (total_score * 7) \div 10 - 1
    ELSE (total_score * 7) \div 10

\* generate_assessment, lines 229-244
generate_assessment(candidate_name, coding_questions, system_design_questions, behavioral_questions) ==
    LET total_score == SumScores(coding_questions \o system_design_questions
                                    \o behavioral_questions, 1)
    IN  [candidate_name |-> candidate_name,
         coding_questions |-> coding_questions,
         system_design_questions |-> system_design_questions,
         behavioral_questions |-> behavioral_questions,
         total_score |-> total_score,
         passing_score |-> passing_score_of(total_score)]

\* The parsed documents parse_markdown returns: the name of personal_info when
\* it has one, the experience entries, and whether each entry has a description.
\* The job description lists a responsibility.
NoName == "no name"
ParsedDocuments ==
    [name : {"John Doe", "Jane Roe", NoName},
     experience : {<<>>, <<WithDuration(<<Numeral(300)>>)>>,
                   <<WithDuration(<<Word("two"), Blank, Word("years")>>)>>},
     described : BOOLEAN]

\* extract_key_matches, parser_agent.py lines 91-96: exp["description"] is read
\* for every entry
extract_key_matches_raises(document) ==
    document.experience # <<>> /\ ~document.described

NoQuestions ==
    [coding_questions |-> <<>>, system_design_questions |-> <<>>,
     behavioral_questions |-> <<>>]

AssessmentEntries ==
    {"process_input", "generate_coding_questions", "generate_system_design_questions"}

\* payload holds the input of the entry point (the document the parser returns,
\* or the count) and cleaned_json the three lists of questions being built.
InitAssessment ==
    /\ stage \in AssessmentEntries
    /\ gen \in {"text", "raise"}
    /\ completion = <<>>
    /\ IF stage = "process_input"
       THEN payload \in [document : ParsedDocuments, count : {0}]
       ELSE /\ gen = "text"
            /\ payload \in [document : {None}, count : 1..MaxCount]
    /\ pc = "start"
    /\ cleaned_json = NoQuestions
    /\ attempt = 0
    /\ result = None
    /\ outcome = "running"
    /\ how = ""
    /\ calls = NoCalls
    /\ invocations = <<>>

AssessmentEnds(o, h, r) ==
    /\ pc' = "done"
    /\ outcome' = o
    /\ how' = h
    /\ result' = r

\* process_input, lines 34-55: parse_markdown, extract_key_matches,
\* get_candidate_level and the arguments of generate_assessment
process_input_parse ==
    /\ stage = "process_input"
    /\ pc = "start"
    /\ LET document == payload.document
           level == get_candidate_level(document.experience)
       IN  IF gen = "raise" THEN AssessmentEnds("raised", "parse_markdown", None)
           ELSE IF extract_key_matches_raises(document)
           THEN AssessmentEnds("raised", "KeyError", None)
           ELSE IF level.raised # ""
           THEN AssessmentEnds("raised", level.raised, None)
           ELSE IF document.name = NoName
           THEN AssessmentEnds("raised", "KeyError", None)
           ELSE /\ pc' = "coding"
                /\ UNCHANGED <<outcome, how, result>>
    /\ UNCHANGED <<stage, gen, completion, payload, cleaned_json, attempt, calls, invocations>>

\* The count of the loop running: the default when generate_assessment calls it.
CountOf(class_type) ==
    IF stage = "process_input" THEN default_count(class_type) ELSE payload.count

\* One iteration of a question loop; after the last one the function returns.
QuestionIteration(class_type, field, next_pc) ==
    /\ attempt < CountOf(class_type)
    /\ \E reply \in QuestionReplies :
          LET questions == cleaned_json[field]
                              \o appended(parsed_question(class_type, reply),
                                          default_question(class_type, attempt))
              last == attempt + 1 >= CountOf(class_type)
          IN  /\ cleaned_json' = [cleaned_json EXCEPT ![field] = questions]
              /\ attempt' = IF last THEN 0 ELSE attempt + 1
              /\ IF last /\ stage # "process_input"
                 THEN AssessmentEnds("returned", "", questions)
                 ELSE /\ pc' = IF last THEN next_pc ELSE pc
                      /\ UNCHANGED <<outcome, how, result>>
    /\ UNCHANGED <<stage, gen, completion, payload, calls, invocations>>

\* generate_coding_questions, lines 260-301
generate_coding_questions ==
    /\ \/ stage = "process_input" /\ pc = "coding"
       \/ stage = "generate_coding_questions" /\ pc = "start"
    /\ QuestionIteration("coding", "coding_questions", "system_design")

\* generate_system_design_questions, lines 317-358
generate_system_design_questions ==
    /\ \/ stage = "process_input" /\ pc = "system_design"
       \/ stage = "generate_system_design_questions" /\ pc = "start"
    /\ QuestionIteration("system_design", "system_design_questions", "behavioral")

\* generate_behavioral_questions, lines 374-415
generate_behavioral_questions ==
    /\ stage = "process_input" /\ pc = "behavioral"
    /\ QuestionIteration("behavioral", "behavioral_questions", "assemble")

\* generate_assessment lines 229-244 and the await of main.py line 48, with
\* the handler of lines 60-64
process_input_await ==
    /\ stage = "process_input"
    /\ pc = "assemble"
    /\ LET assessment == generate_assessment(payload.document.name,
                                             cleaned_json.coding_questions,
                                             cleaned_json.system_design_questions,
                                             cleaned_json.behavioral_questions)
           awaited == Await(Called(FALSE, assessment))
       IN  /\ Invoked("generate_assessment", payload.document.name, assessment)
           /\ IF awaited.raised # ""
              THEN AssessmentEnds("raised", awaited.raised, None)
              ELSE AssessmentEnds("returned", "", awaited.value)
    /\ UNCHANGED <<stage, gen, completion, payload, cleaned_json, attempt, calls>>

NextAssessment ==
    \/ process_input_parse
    \/ generate_coding_questions
    \/ generate_system_design_questions
    \/ generate_behavioral_questions
    \/ process_input_await

SpecAssessment == InitAssessment /\ [][NextAssessment]_vars

\* ------------------------------------ AssessmentAgent (oa_module final), evaluation
\* What one evaluation of an answer comes to: the call or json.loads fails, or
\* the reply is a JSON object: the one the prompt of the question type asks
\* for (ratings in hundredths), or an object without its keys.
EvaluationOutcomes == {"fails", "scored", "scored_zero", "other_object"}

ErrorFeedback == "Error evaluating answer"

\* The record of the except branch, assessment_agent.py lines 131-136
evaluation_error_record ==
    [score |-> 0, feedback |-> ErrorFeedback, technical_accuracy |-> 0,
     understanding_level |-> "error"]

\* The object the prompt of lines 25-91 asks for.
EvaluationReply(question_type, score) ==
    CASE question_type = "coding" ->
            [score |-> score, feedback |-> "feedback", technical_accuracy |-> 50,
             understanding_level |-> "basic"]
      [] question_type = "system_design" ->
            [score |-> score, feedback |-> "feedback", architecture_quality |-> 50,
             scalability_consideration |-> 75, security_consideration |-> 25]
      [] question_type = "behavioral" ->
            [score |-> score, feedback |-> "feedback", competency_rating |-> 50,
             passion_rating |-> 100, communication_clarity |-> 75]

\* evaluate_answer, lines 102-136
evaluate_answer(question_type, evaluation) ==
    CASE evaluation = "fails" -> evaluation_error_record
      [] evaluation = "scored" -> EvaluationReply(question_type, 30)
      [] evaluation = "scored_zero" -> EvaluationReply(question_type, 0)
      [] evaluation = "other_object" -> [verdict |-> "good"]

\* The keys evaluate_assessment reads of a result, lines 164-175, in order
keys_read(question_type) ==
    <<"score", "feedback">> \o
    (CASE question_type = "coding" -> <<"technical_accuracy">>
       [] question_type = "system_design" ->
            <<"architecture_quality", "scalability_consideration">>
       [] question_type = "behavioral" -> <<"competency_rating", "passion_rating">>)

\* The first key read that the record does not have, 0 when it has them all.
RECURSIVE FirstMissing(_, _, _)
FirstMissing(record, keys, i) ==
    IF i > Len(keys) THEN 0
    ELSE IF keys[i] \notin DOMAIN record THEN i
    ELSE FirstMissing(record, keys, i + 1)

\* dict[key] = value
Stored(dict, key, value) ==
    [k \in DOMAIN dict \cup {key} |-> IF k = key THEN value ELSE dict[k]]

RECURSIVE SumOf(_)
SumOf(numbers) == IF numbers = <<>> THEN 0 ELSE Head(numbers) + SumOf(Tail(numbers))

RECURSIVE SumValues(_, _)
SumValues(dict, keys) ==
    IF keys = {} THEN 0
    ELSE LET k == CHOOSE x \in keys : TRUE IN dict[k] + SumValues(dict, keys \ {k})

\* sum(ratings) / len(ratings) if ratings else 0.0, lines 181-182: the
\* quotient is kept as the pair of its terms
average(ratings) ==
    IF ratings = <<>> THEN [sum |-> 0, over |-> 1]
    ELSE [sum |-> SumOf(ratings), over |-> Len(ratings)]

\* passed = total_score >= assessment.passing_score, line 179
passed_at(total_score, passing_score) == total_score >= passing_score

\* The locals of lines 145-148
NoEvaluations ==
    [question_scores |-> <<>>, feedback |-> <<>>, technical_ratings |-> <<>>,
     passion_ratings |-> <<>>]

\* The questions in the order lines 151-156 visit them, with the type of the
\* list each stands in.
Visited(assessment) ==
    [i \in 1..Len(assessment.coding_questions) |->
        [question_type |-> "coding", question |-> assessment.coding_questions[i]]]
    \o [i \in 1..Len(assessment.system_design_questions) |->
        [question_type |-> "system_design",
         question |-> assessment.system_design_questions[i]]]
    \o [i \in 1..Len(assessment.behavioral_questions) |->
        [question_type |-> "behavioral", question |-> assessment.behavioral_questions[i]]]

\* The assessments evaluated: one question of each type, two coding questions
\* and a design question, and two parsed coding questions with the same id.
ParsedCoding == [id |-> <<"unique_string">>, type |-> "coding", score |-> 5]
Assessments ==
    {generate_assessment("John Doe", <<default_question("coding", 0)>>,
                         <<default_question("system_design", 0)>>,
                         <<default_question("behavioral", 0)>>),
     generate_assessment("John Doe",
                         <<default_question("coding", 0), default_question("coding", 1)>>,
                         <<default_question("system_design", 0)>>, <<>>),
     generate_assessment("Jane Roe", <<ParsedCoding, ParsedCoding>>, <<>>, <<>>)}

QuestionIds(assessment) ==
    {Visited(assessment)[i].question.id : i \in 1..Len(Visited(assessment))}

\* payload holds the arguments, cleaned_json the four locals, attempt the
\* number of questions visited.
InitEvaluation ==
    /\ stage = "evaluate_assessment"
    /\ gen = "text"
    /\ completion = <<>>
    /\ \E assessment \in Assessments :
          payload \in [assessment : {assessment},
                       candidate_answers : SUBSET (QuestionIds(assessment)
                                                      \cup {<<"stray">>})]
    /\ pc = "start"
    /\ cleaned_json = NoEvaluations
    /\ attempt = 0
    /\ result = None
    /\ outcome = "running"
    /\ how = ""
    /\ calls = NoCalls
    /\ invocations = <<>>

\* One pass of the inner loop, lines 156-175: an unanswered question is
\* skipped; an answered one is evaluated and the keys of its result are read,
\* the first one missing raising KeyError out of evaluate_assessment.
evaluate_question ==
    /\ stage = "evaluate_assessment"
    /\ pc = "start"
    /\ attempt < Len(Visited(payload.assessment))
    /\ LET visited == Visited(payload.assessment)[attempt + 1]
           question == visited.question
           question_type == visited.question_type
       IN  IF question.id \notin payload.candidate_answers
           THEN /\ attempt' = attempt + 1
                /\ UNCHANGED <<cleaned_json, pc, outcome, how, result>>
           ELSE \E evaluation \in EvaluationOutcomes :
                   LET evaluated == evaluate_answer(question_type, evaluation)
                       keys == keys_read(question_type)
                       missing == FirstMissing(evaluated, keys, 1)
                       read == IF missing = 0 THEN Len(keys) ELSE missing - 1
                       ratings == [i \in 1..(read - 2) |-> evaluated[keys[i + 2]]]
                       technical ==
                           IF question_type = "behavioral" /\ read > 3
                           THEN SubSeq(ratings, 1, 1) ELSE ratings
                       passion ==
                           IF question_type = "behavioral" /\ read > 3
                           THEN SubSeq(ratings, 2, 2) ELSE <<>>
                   IN  /\ cleaned_json' =
                            [question_scores |->
                                IF read >= 1
                                THEN Stored(cleaned_json.question_scores, question.id,
                                            evaluated.score)
                                ELSE cleaned_json.question_scores,
                             feedback |->
                                IF read >= 2
                                THEN Stored(cleaned_json.feedback, question.id,
                                            evaluated.feedback)
                                ELSE cleaned_json.feedback,
                             technical_ratings |->
                                cleaned_json.technical_ratings \o technical,
                             passion_ratings |-> cleaned_json.passion_ratings \o passion]
                       /\ attempt' = attempt + 1
                       /\ IF missing # 0
                          THEN AssessmentEnds("raised", "KeyError", None)
                          ELSE UNCHANGED <<pc, outcome, how, result>>
    /\ UNCHANGED <<stage, gen, completion, payload, calls, invocations>>

\* lines 177-193
evaluate_assessment_return ==
    /\ stage = "evaluate_assessment"
    /\ pc = "start"
    /\ attempt = Len(Visited(payload.assessment))
    /\ LET total_score == SumValues(cleaned_json.question_scores,
                                    DOMAIN cleaned_json.question_scores)
       IN  AssessmentEnds("returned", "",
                          [candidate_name |-> payload.assessment.candidate_name,
                           score |-> total_score,
                           passed |-> passed_at(total_score,
                                                payload.assessment.passing_score),
                           question_scores |-> cleaned_json.question_scores,
                           feedback |-> cleaned_json.feedback,
                           technical_rating |-> average(cleaned_json.technical_ratings),
                           passion_rating |-> average(cleaned_json.passion_ratings)])
    /\ UNCHANGED <<stage, gen, completion, payload, cleaned_json, attempt, calls, invocations>>

NextEvaluation ==
    \/ evaluate_question
    \/ evaluate_assessment_return

SpecEvaluation == InitEvaluation /\ [][NextEvaluation]_vars

\* ------------------------------ generate_decision on every decision record
\* The decision stage alone, the object of the completion ranging over all the
\* decision records the validator and the salvage pass are exercised on.
InitSalvage ==
    /\ stage = "idle"
    /\ gen = "text"
    /\ completion = <<>>
    /\ payload = None
    /\ Fresh

generate_decision_any == generate_decision_on(DecisionRecords)

NextSalvage ==
    \/ generate_decision_any
    \/ generate_decision_attempt

SpecSalvage == InitSalvage /\ [][NextSalvage]_vars

\* =================================================================== claims
IsNone(v) == DOMAIN v = {"none"}

StageDefault ==
    CASE stage = "resume" -> create_empty_structure
      [] stage = "match" -> create_default_analysis
      [] stage = "decision" -> create_default_decision

NoBraces(text) == \A i \in 1..Len(text) : text[i] \notin {LB, RB, OBJ, DEFOBJ}

\* The record the decision stage gets from json.loads, of the completion
\* itself or of what clean_json_response makes of it; none when the
\* completion never parses.
ParsedDecision ==
    IF Parses(completion)
    THEN [ok |-> TRUE, data |-> AsDecision(completion, payload)]
    ELSE LET cleaned == DF_clean_json_response(completion) IN
         IF cleaned.raised THEN [ok |-> FALSE, data |-> NoDecisionRecord]
         ELSE [ok |-> TRUE, data |-> AsDecision(cleaned.text, payload)]

\* C1: whatever the inputs and whatever the generation collaborator does
\* (returns a text or raises), parse_resume, match_job and generate_decision
\* never let an exception out, and end by returning a record with the keys of
\* the stage record, never None.
C1_EntryPointsReturnRecord ==
    /\ [](outcome # "raised")
    /\ [](pc = "done" => /\ outcome = "returned"
                         /\ ~IsNone(result)
                         /\ DOMAIN result = DOMAIN StageDefault)
    /\ <>(pc = "done")

\* generate_decision ended after clean_json_response raised UnboundLocalError
\* and the handler of line 407 returned the default.
C1_Witness ==
    /\ stage = "decision"
    /\ pc = "done"
    /\ gen = "text"
    /\ calls.clean = 1
    /\ cleaned_json = Unbound
    /\ outcome = "returned"
    /\ result = create_default_decision

\* C2: every record match_job returns satisfies validate_match_analysis and
\* every record generate_decision returns satisfies validate_decision; it is
\* a validated parsed record, a salvaged record that validated, or the
\* default record of the stage.
C2_ReturnedRecordsValidate ==
    (pc = "done" /\ stage \in {"match", "decision"}) =>
        /\ how \in {"parsed", "salvaged", "default"}
        /\ how = "default" => result = StageDefault
        /\ stage = "match" => validate_match_analysis(result)
        /\ stage = "decision" => validate_decision(result)

\* generate_decision returned a salvaged record that is not the default.
C2_Witness ==
    /\ stage = "decision"
    /\ pc = "done"
    /\ how = "salvaged"
    /\ result # create_default_decision
    /\ validate_decision(result)

\* C3: when the generation collaborator raises inside match_job or
\* generate_decision, the default record is returned at once: the
\* collaborator was called once, and no repair, parse, validation or salvage
\* ran.
C3_TransportErrorReturnsDefault ==
    (pc = "done" /\ stage \in {"match", "decision"} /\ gen = "raise") =>
        /\ outcome = "returned"
        /\ result = StageDefault
        /\ calls = [NoCalls EXCEPT !.gen = 1]

\* match_job ended after its request raised.
C3_Witness ==
    /\ stage = "match"
    /\ pc = "done"
    /\ gen = "raise"
    /\ calls.gen = 1
    /\ result = create_default_analysis

\* C4: JobMatchingAgent.clean_json_response returns, for every text, a text
\* json.loads accepts, and raises nothing; when fix_json_string does not make
\* the text parse it returns the serialized default analysis.
C4_JobMatchRepairTotal ==
    (stage = "repair" /\ pc = "jm_done") =>
        /\ outcome = "returned"
        /\ Parses(cleaned_json)
        /\ IF Parses(fix_json_string(completion))
           THEN cleaned_json = fix_json_string(completion)
           ELSE cleaned_json = <<DEFOBJ>>

\* clean_json_response was given a text that no fix makes parse and
\* returned the serialized default.
C4_Witness ==
    /\ stage = "repair"
    /\ pc = "jm_done"
    /\ completion = <<LB, DQ, WCH>>
    /\ ~Parses(fix_json_string(completion))
    /\ cleaned_json = <<DEFOBJ>>

\* C5: DecisionFeedbackAgent.clean_json_response never raises and always
\* returns a text json.loads accepts, also for a text that fence stripping,
\* object extraction and the basic fixes do not make parse.
C5_DecisionRepairTotal ==
    (stage = "repair" /\ pc = "df_done") =>
        /\ outcome = "returned"
        /\ Parses(cleaned_json)

\* clean_json_response was given an object cut off before its closing
\* brace, and raised.
C5_Raised ==
    /\ stage = "repair"
    /\ pc = "df_done"
    /\ completion = <<LB, DQ, WCH>>
    /\ outcome = "raised"

\* C6: in generate_decision, when the completion parses (as it is, or after
\* clean_json_response) to a record that fails validate_decision, the
\* salvaged record is returned if it validates, and the default record only
\* if the salvaged record fails validation too.
C6_SalvagedReturnedWhenValid ==
    (stage = "decision" /\ pc = "done" /\ gen = "text"
        /\ ParsedDecision.ok /\ ~validate_decision(ParsedDecision.data)) =>
        LET salvaged == fix_decision_structure(ParsedDecision.data) IN
        IF validate_decision(salvaged) THEN result = salvaged
        ELSE result = create_default_decision

\* The completion parsed as it was, to a record whose salvage validates and
\* differs from the default, and the default was returned.
C6_DefaultInsteadOfSalvaged ==
    /\ stage = "decision"
    /\ pc = "done"
    /\ gen = "text"
    /\ Parses(completion)
    /\ ~validate_decision(AsDecision(completion, payload))
    /\ validate_decision(fix_decision_structure(AsDecision(completion, payload)))
    /\ fix_decision_structure(AsDecision(completion, payload)) # create_default_decision
    /\ result = create_default_decision

\* C7: for a decision whose status is one of the valid statuses and whose
\* confidence_score is a number outside 0..100, fix_decision_structure
\* returns a record with that status, the default confidence_score 50, and
\* which passes validate_decision.
C7_SalvageDropsOutOfRangeConfidence ==
    (stage = "decision_record" /\ pc = "done"
        /\ payload.decision.k = "dict"
        /\ IsStr(payload.decision.f.status)
        /\ payload.decision.f.status.s \in valid_statuses
        /\ IsNumber(payload.decision.f.confidence_score)
        /\ ~InRange(payload.decision.f.confidence_score)) =>
        /\ result.decision.f.status = payload.decision.f.status
        /\ result.decision.f.confidence_score = Num(50)
        /\ validate_decision(result)

\* Salvage of status PROCEED with confidence_score 150 kept the 150.
C7_OutOfRangeKept ==
    /\ stage = "decision_record"
    /\ pc = "done"
    /\ payload = DecisionRecord(Dict([status |-> Str("PROCEED"),
                                      confidence_score |-> Num(150),
                                      interview_stage |-> Str("TECHNICAL")]), GoodRest)
    /\ result.decision.f.status = Str("PROCEED")
    /\ result.decision.f.confidence_score = Num(150)
    /\ ~validate_decision(result)

C9_UnstructuredTextGivesDefault ==
    (pc = "done" /\ stage \in {"match", "decision"} /\ gen = "text"
        /\ NoBraces(completion)) =>
        /\ outcome = "returned"
        /\ result = StageDefault
        /\ stage = "match" =>
              result.areas_for_consideration = List("Analysis failed - please try again")
        /\ stage = "decision" =>
              result.next_steps.f.timeline_recommendation
                  = Str("Proceed with caution due to data processing issues")

\* generate_decision ended on a completion of two words.
C9_Witness ==
    /\ stage = "decision"
    /\ pc = "done"
    /\ gen = "text"
    /\ completion = <<WCH, SP, WCH>>
    /\ result = create_default_decision

\* C10: the retry loop of match_job and of generate_decision makes at most
\* three attempts, one after the other (attempt goes up by one, nothing else
\* runs between), and every invocation ends in a return.
C10_AtMostThreeAttempts ==
    /\ [](calls.attempts <= 3 /\ attempt < 3)
    /\ [][attempt' \in {attempt, attempt + 1} /\ calls'.attempts \in {calls.attempts, calls.attempts + 1}]_vars
    /\ <>(pc = "done" /\ outcome = "returned")

\* The third attempt of generate_decision failed like the two before it,
\* and the default was returned.
C10_Witness ==
    /\ stage = "decision"
    /\ pc = "done"
    /\ attempt = 2
    /\ calls.attempts = 3
    /\ calls.salvage = 3
    /\ how = "default"

\* C11: within one invocation of match_job or generate_decision the
\* generation collaborator is called at most once, whatever fails afterwards,
\* and every attempt works on text derived from the one completion, which
\* no step replaces.
C11_OneGenerationCall ==
    /\ [](calls.gen <= 1)
    /\ [][stage # "idle" => (completion' = completion /\ calls'.gen = calls.gen)]_vars

\* generate_decision went through three failed attempts on one completion.
C11_Witness ==
    /\ stage = "decision"
    /\ pc = "done"
    /\ calls.attempts = 3
    /\ calls.gen = 1

\* The parsed record of the invocation failed structural validation.
ParsedRecordInvalid ==
    CASE stage = "resume" -> how = "unvalidated"
      [] stage = "match" ->
            /\ gen = "text"
            /\ ~validate_match_analysis(AsAnalysis(JM_clean_json_response(completion), payload))
      [] stage = "decision" ->
            /\ gen = "text"
            /\ ParsedDecision.ok
            /\ ~validate_decision(ParsedDecision.data)
      [] OTHER -> FALSE

\* C12: in each of the three agents, when the parsed record fails
\* structural validation, the salvage pass runs exactly once in that
\* invocation.
C12_SalvageRunsOnce ==
    (pc = "done" /\ ParsedRecordInvalid) => calls.salvage = 1

\* generate_decision ran the salvage pass on each of its three attempts.
C12_SalvageRunsPerAttempt ==
    /\ stage = "decision"
    /\ pc = "done"
    /\ ParsedRecordInvalid
    /\ calls.salvage = 3

\* C13: in JobMatchingAgent.clean_json_response, when the text the basic
\* passes leave does not parse, the later passes are tried in order and the
\* first whose output parses is returned: the text after whitespace collapse
\* when that parses (the error-position repair between the two changes
\* nothing then, the first error being a line break inside a string), and
\* the serialized default only when neither that text nor the region
\* extracted from the original text parses.
C13_LaterPassesTried ==
    (stage = "repair" /\ pc = "jm_done" /\ ~Parses(fix_json_string(completion))) =>
        LET second == JM_collapse(fix_json_string(completion))
            third == JM_region(completion)
        IN  /\ Parses(second) => cleaned_json = second
            /\ cleaned_json = <<DEFOBJ>> =>
                  ~Parses(second) /\ ~(third.found /\ Parses(third.text))

\* An object with a line break inside a string, which whitespace collapse
\* makes parse, came back as the serialized default.
C13_DefaultWithoutLaterPasses ==
    /\ stage = "repair"
    /\ pc = "jm_done"
    /\ completion = ObjectWithLineBreak
    /\ Parses(JM_collapse(fix_json_string(completion)))
    /\ cleaned_json = <<DEFOBJ>>

\* prose, a well-formed object, more prose
Embedded(text) == text = Prose \o <<SP, OBJ, SP>> \o Prose

\* C14: for a completion made of prose, a well-formed object with a string
\* key, and more prose, clean_json_response of the job matcher (of ATS-Portal
\* and of ATS With pydantic) returns a text that parses to that object, not
\* the default.
C14_EmbeddedObjectRecovered ==
    (stage = "repair" /\ pc \in {"jm_done", "pyd_done"} /\ Embedded(completion)) =>
        Parses(cleaned_json) /\ Loads(cleaned_json) = <<OBJ>>

\* The variant that runs the region extraction returned its default: the
\* extracted object no longer parses after line 99 (116 there) rewrote its
\* quotes.
C14_RegionSpoiled ==
    /\ stage = "repair"
    /\ pc = "pyd_done"
    /\ Embedded(completion)
    /\ JM_region(completion).found
    /\ JM_region(completion).text = <<BADOBJ>>
    /\ cleaned_json = <<PDEFOBJ>>

\* C15: for every text that already parses, the text a repair engine
\* (clean_json_response of the job matcher and of the decision agent)
\* returns parses to the same structure.
C15_RepairKeepsValidText ==
    (stage = "repair" /\ pc \in {"jm_done", "df_done"} /\ Parses(completion)) =>
        /\ outcome = "returned"
        /\ Parses(cleaned_json)
        /\ Loads(cleaned_json) = Loads(completion)

\* A valid object with an apostrophe in a string value came back from the
\* job matcher as the serialized default.
C15_ValidTextReplaced ==
    /\ stage = "repair"
    /\ pc = "jm_done"
    /\ completion = ObjectWithApostrophe
    /\ Parses(completion)
    /\ cleaned_json = <<DEFOBJ>>

\* The fields of a decision that must be lists.
DecisionListFields ==
    {<<"rationale", key>> : key \in RationaleKeys}
        \cup {<<"recommendations", key>> : key \in RecommendationKeys}
        \cup {<<"hiring_manager_notes", "onboarding_requirements">>,
              <<"next_steps", "immediate_actions">>,
              <<"next_steps", "required_approvals">>}

\* C16: validate_decision returns False for a record that lacks one of the
\* five sections, or whose status is none of PROCEED, HOLD, REJECT, or whose
\* confidence_score is no number or outside 0..100, or whose interview_stage
\* is none of SKIP, SCREENING, TECHNICAL, FULL_LOOP, or one of whose list
\* fields is no list; and True for a record with every required key that
\* meets all of these.
C16_ValidateDecision ==
    (stage = "decision_record" /\ pc = "validated") =>
        LET d == payload
            section == d.decision.f
            LacksSection == \E name \in DOMAIN d : d[name].k = "absent"
            BadStatus == ~(section.status.t = "str"
                           /\ section.status.s \in {"PROCEED", "HOLD", "REJECT"})
            BadConfidence == ~(section.confidence_score.t = "num"
                               /\ section.confidence_score.n >= 0
                               /\ section.confidence_score.n <= 100)
            BadStage == ~(section.interview_stage.t = "str"
                          /\ section.interview_stage.s
                                \in {"SKIP", "SCREENING", "TECHNICAL", "FULL_LOOP"})
            BadList == \E f \in DecisionListFields : d[f[1]].f[f[2]].t # "list"
            Bad == LacksSection \/ BadStatus \/ BadConfidence \/ BadStage \/ BadList
            Complete == \A name \in DOMAIN d :
                            /\ d[name].k = "dict"
                            /\ \A key \in DOMAIN d[name].f : d[name].f[key].t # "absent"
        IN  /\ Bad => how = "invalid"
            /\ (Complete /\ ~Bad) => how = "valid"

\* A record that is right but for a confidence_score of 150 was rejected.
C16_Witness ==
    /\ stage = "decision_record"
    /\ pc = "validated"
    /\ payload = DecisionRecord(Dict([status |-> Str("PROCEED"),
                                      confidence_score |-> Num(150),
                                      interview_stage |-> Str("TECHNICAL")]), GoodRest)
    /\ how = "invalid"

\* C17: validate_match_analysis accepts a record only if all four
\* categories are there, each with a score that is a number in 0..100 and
\* with matches and gaps that are lists.
C17_ValidateMatchAnalysis ==
    (stage = "analysis_record" /\ pc = "validated" /\ how = "valid") =>
        /\ payload.analysis.k = "dict"
        /\ \A key \in {"skills", "experience", "education", "additional"} :
              LET component == payload.analysis.c[key] IN
              /\ component.k = "dict"
              /\ component.f.score.t = "num"
              /\ component.f.score.n >= 0
              /\ component.f.score.n <= 100
              /\ component.f.matches.t = "list"
              /\ component.f.gaps.t = "list"

\* An analysis whose skills.matches is a string was accepted.
C17_NonListAccepted ==
    /\ stage = "analysis_record"
    /\ pc = "validated"
    /\ payload = [GoodAnalysis EXCEPT !.analysis.c.skills.f.matches = Str("python")]
    /\ how = "valid"

\* C18: validate_structured_data returns True exactly when a personal_info
\* field is non-empty or one of education, experience, skills.technical,
\* skills.soft, projects is non-empty; summary and certifications do not
\* count, and the empty structure is invalid.
C18_ValidateStructuredData ==
    (stage = "resume_record" /\ pc = "validated") =>
        LET d == payload
            SomeInfo == \E key \in {"name", "email", "phone", "location"} :
                            d.personal_info[key] # ""
            SomeEntry == \/ d.education # <<>>
                         \/ d.experience # <<>>
                         \/ d.skills.technical # <<>>
                         \/ d.skills.soft # <<>>
                         \/ d.projects # <<>>
        IN  /\ how = "valid" <=> (SomeInfo \/ SomeEntry)
            /\ d = create_empty_structure => how = "invalid"

\* A record with a summary and a certification and nothing else was found
\* invalid.
C18_Witness ==
    /\ stage = "resume_record"
    /\ pc = "validated"
    /\ payload = [create_empty_structure EXCEPT !.summary = "Engineer",
                                                !.certifications = <<"AWS">>]
    /\ how = "invalid"

\* ---------------------------------------------------------------------- C19
InRun == stage \in Orchestrators /\ pc # "start"

NoJobDescription == ~payload.job_desc_file_obj /\ payload.job_desc_pasted_text = ""

StagesInvoked == {invocations[i].stage : i \in 1..Len(invocations)}

\* C19: in a run without a job description (no file, no pasted text) only the
\* Resume Parser is invoked; once it has returned the run ends without error
\* and leaves the parsed resume together with an empty or default Match
\* Analysis and an empty or default Decision.
C19_ShortCircuitWithoutJobDescription ==
    (InRun /\ NoJobDescription) =>
        /\ StagesInvoked \subseteq {"parse_resume"}
        /\ Len(invocations) = 1 =>
              /\ pc = "done"
              /\ outcome = "returned"
              /\ result.parsed_resume = invocations[1].returned
              /\ result.match_analysis \in {EmptyMatchAnalysis, create_default_analysis}
              /\ result.decision \in {EmptyDecisionFeedback, create_default_decision}

\* process_files ends such a run with no Match Analysis and no Decision at all.
C19_NoRecordsLeftBehind ==
    /\ stage = "process_files"
    /\ pc = "done"
    /\ NoJobDescription
    /\ outcome = "returned"
    /\ StagesInvoked = {"parse_resume"}
    /\ result.parsed_resume = invocations[1].returned
    /\ result.match_analysis = UnboundLocal
    /\ result.decision = UnboundLocal

\* ---------------------------------------------------------------------- C20
StageOrder == <<"parse_resume", "match_job", "generate_decision">>

\* C20: in every run the stage calls are a prefix of Resume Parser, Job
\* Matcher, Decision Generator, each at most once; match_job receives what
\* parse_resume returned, generate_decision receives what parse_resume and
\* match_job returned; the later stages run only with a job description.
C20_StagesInOrderDataForward ==
    InRun =>
        /\ Len(invocations) <= 3
        /\ \A i \in 1..Len(invocations) : invocations[i].stage = StageOrder[i]
        /\ Len(invocations) >= 2 =>
              /\ invocations[2].received.candidate_profile = invocations[1].returned
              /\ payload.job_desc_file_obj \/ payload.job_desc_pasted_text # ""
        /\ Len(invocations) = 3 =>
              /\ invocations[3].received.candidate_profile = invocations[1].returned
              /\ invocations[3].received.match_analysis = invocations[2].returned
        /\ (pc = "done" /\ outcome = "returned" /\ job_desc_available(payload)) =>
              Len(invocations) = 3

\* A run with a job description went through the three stages, with a parsed
\* resume and an analysis that are not the defaults.
C20_Witness ==
    /\ InRun
    /\ pc = "done"
    /\ outcome = "returned"
    /\ Len(invocations) = 3
    /\ invocations[1].returned # create_empty_structure
    /\ invocations[2].returned = GoodAnalysis
    /\ invocations[3].received.match_analysis = GoodAnalysis
    /\ result.decision = invocations[3].returned

\* ---------------------------------------------------------------------- C21
\* The hundredths the numerals first in their duration add up to, over the
\* entries that have a duration.
RECURSIVE FirstNumerals(_)
FirstNumerals(experience) ==
    IF experience = <<>> THEN 0
    ELSE LET exp == Head(experience)
             firsts == SelectSeq(exp.duration, IsNumeral)
         IN  (IF exp.has_duration /\ firsts # <<>> THEN firsts[1].numeral ELSE 0)
                 + FirstNumerals(Tail(experience))

LevelDone == stage = "candidate_level" /\ pc = "done"

\* C21: get_candidate_level classifies the sum of the entries' durations,
\* entries without a duration adding nothing: junior below 2 years, mid from
\* 2 to below 5, senior from 5; exactly 2.0 is mid, exactly 5.0 is senior and
\* 1.99 is junior.
C21_LevelThresholds ==
    (LevelDone /\ outcome = "returned") =>
        LET total == FirstNumerals(payload) IN
        /\ result.level = "junior" <=> total < 200
        /\ result.level = "mid" <=> (200 <= total /\ total < 500)
        /\ result.level = "senior" <=> total >= 500

\* Several entries, one without a duration, adding up to exactly 5.0 years.
C21_Witness ==
    /\ LevelDone
    /\ outcome = "returned"
    /\ Len(payload) = 3
    /\ \E i \in 1..3 : ~payload[i].has_duration
    /\ FirstNumerals(payload) = 500
    /\ result.level = "senior"

\* ---------------------------------------------------------------------- C22
\* What an entry adds when a duration that does not parse counts as 0.
DurationOrZero(exp) ==
    LET tokens == Split(exp.duration) IN
    IF exp.has_duration /\ tokens # <<>> /\ IsFloat(tokens[1])
    THEN tokens[1][1].numeral ELSE 0

RECURSIVE TotalOrZero(_)
TotalOrZero(experience) ==
    IF experience = <<>> THEN 0
    ELSE DurationOrZero(Head(experience)) + TotalOrZero(Tail(experience))

Unparseable(exp) ==
    exp.has_duration /\ (Split(exp.duration) = <<>> \/ ~IsFloat(Split(exp.duration)[1]))

\* C22: an entry whose duration does not parse as a number (the first token
\* is no float, or the string has no token) adds 0 to the total;
\* get_candidate_level still returns the level of the total and does not fail.
C22_UnparseableDurationCountsZero ==
    LevelDone =>
        /\ outcome = "returned"
        /\ result.level = (IF TotalOrZero(payload) < 200 THEN "junior"
                           ELSE IF TotalOrZero(payload) < 500 THEN "mid"
                           ELSE "senior")

\* The call fails on such an entry, with ValueError or with IndexError.
C22_CallFails ==
    /\ LevelDone
    /\ \E i \in 1..Len(payload) : Unparseable(payload[i])
    /\ outcome = "raised"
    /\ result.raised \in {"ValueError", "IndexError"}

\* ---------------------------------------------------------------------- C23
TransformDone == stage = "transform" /\ pc = "done" /\ how # "default"

\* s / 100 as a fraction: out is s divided by 100, s missing counting as 0
IsHundredthOf(out, s) ==
    /\ out.t = "num"
    /\ IF s.t = "absent" THEN out.n = 0
       ELSE out.n * s.d * 100 = s.n * out.d

C24_InsightsNeverEmpty ==
    (stage = "transform" /\ pc = "done") => Len(result.additional_insights) >= 1

\* Nothing to report in the raw record: the one entry is the stand-in.
C24_Witness ==
    /\ stage = "transform"
    /\ pc = "done"
    /\ how = "transformed"
    /\ ~Truthy(payload.recommendation)
    /\ ~Truthy(payload.key_strengths)
    /\ ~Truthy(payload.areas_for_consideration)
    /\ result.additional_insights = <<Plain("No additional insights available")>>

\* ---------------------------------------------------------------------- C25
EmptyCategory == Dict([score |-> Num(0), matches |-> List(""), gaps |-> List("")])

\* C25: whatever calls came before, create_default_analysis returns match
\* score 0 and score 0 with empty matches and gaps in all four categories,
\* and create_default_decision returns status HOLD, confidence 50 and stage
\* SCREENING: what a salvage pass wrote into one default instance is in no
\* default record returned later.
C25_DefaultRecordsFixed ==
    stage = "defaults" =>
        /\ how = "create_default_analysis" =>
              /\ result.match_score = Num(0)
              /\ \A key \in analysis_keys : result.analysis.c[key] = EmptyCategory
              /\ result.key_strengths = List("")
        /\ how = "create_default_decision" =>
              /\ result.decision.f.status = Str("HOLD")
              /\ result.decision.f.confidence_score = Num(50)
              /\ result.decision.f.interview_stage = Str("SCREENING")
              /\ result.rationale = create_default_decision.rationale

\* A default analysis returned after a salvage pass has written a score of
\* 72 into another instance.
C25_Witness ==
    /\ stage = "defaults"
    /\ how = "create_default_analysis"
    /\ \E i \in 1..Len(payload) :
          /\ payload[i].kind = "analysis"
          /\ payload[i].content.match_score = Num(72)
          /\ i < Len(payload)
    /\ result.match_score = Num(0)

\* C26: OAModule.process_input, once markdown parsing succeeded and the
\* questions have been generated, does not fail: it returns the Assessment
\* generate_assessment built, whose candidate_name is the name of the parsed
\* resume and which holds at least one coding, one system-design and one
\* behavioral question.
QuestionsGenerated == stage = "process_input" /\ pc = "done" /\ invocations # <<>>

NamedAndStocked(assessment) ==
    /\ assessment.candidate_name = payload.document.name
    /\ Len(assessment.coding_questions) > 0
    /\ Len(assessment.system_design_questions) > 0
    /\ Len(assessment.behavioral_questions) > 0

C26_NoFailureAfterGeneration ==
    QuestionsGenerated =>
        /\ outcome = "returned"
        /\ ~IsNone(result)
        /\ NamedAndStocked(result)

\* The questions were generated for the parsed name and the call still failed.
C26_FailsAfterGeneration ==
    /\ QuestionsGenerated
    /\ gen = "text"
    /\ NamedAndStocked(invocations[1].returned)
    /\ outcome = "raised"
    /\ how = "TypeError"
    /\ IsNone(result)

\* C27: for count >= 1 and any reply of the language model to each prompt,
\* generate_coding_questions returns exactly count questions, all of type
\* coding, and generate_system_design_questions exactly count questions, all of
\* type system_design; each iteration adds exactly one question, the parsed one
\* or the built-in default.
OneOfType(class_type, questions, i) ==
    /\ questions[i].type = class_type
    /\ \/ questions[i] = default_question(class_type, i - 1)
       \/ questions[i].id = <<"unique_string">>

ReturnsCount(entry, class_type) ==
    (stage = entry /\ outcome = "returned") =>
        /\ Len(result) = payload.count
        /\ result # <<>>
        /\ \A i \in 1..Len(result) : OneOfType(class_type, result, i)

OnePerIteration(entry, class_type, field) ==
    (stage = entry /\ pc = "start") => Len(cleaned_json[field]) = attempt

EvaluationOver == stage = "evaluate_assessment" /\ pc = "done"

AnsweredIds ==
    QuestionIds(payload.assessment) \cap payload.candidate_answers

C28_EvaluationAlwaysReturns ==
    EvaluationOver =>
        /\ outcome = "returned"
        /\ ~IsNone(result)
        /\ DOMAIN result.question_scores = AnsweredIds
        /\ result.score = SumValues(result.question_scores, AnsweredIds)
        /\ result.score >= 0
        /\ result.passed <=> result.score >= payload.assessment.passing_score

\* The evaluation of a system-design or behavioral answer failed, the error
\* record was taken for its score and feedback, and evaluate_assessment
\* raised KeyError instead of returning.
C28_FailedEvaluationRaises ==
    /\ EvaluationOver
    /\ outcome = "raised"
    /\ how = "KeyError"
    /\ IsNone(result)
    /\ LET visited == Visited(payload.assessment)[attempt] IN
       /\ visited.question_type \in {"system_design", "behavioral"}
       /\ visited.question.id \in AnsweredIds
       /\ visited.question.id \in DOMAIN cleaned_json.feedback
       /\ cleaned_json.feedback[visited.question.id] = ErrorFeedback
       /\ cleaned_json.question_scores[visited.question.id] = 0

\* C29: the record fix_decision_structure makes of a parsed decision record
\* fails validate_decision if and only if the confidence_score of the input
\* is a number outside 0..100; so in the retry loop of generate_decision,
\* which salvages the same text again, a record whose salvage fails on the
\* first attempt fails on all three and the default decision is returned.
NumericOutOfRange(decision) ==
    /\ decision.decision.k = "dict"
    /\ IsNumber(decision.decision.f.confidence_score)
    /\ ~InRange(decision.decision.f.confidence_score)

Salvaging == stage = "decision" /\ gen = "text" /\ calls.salvage >= 1

C29_SalvageFailsIffConfidenceOutOfRange ==
    Salvaging =>
        LET decision_data == AsDecision(cleaned_json, payload) IN
        /\ ~validate_decision(fix_decision_structure(decision_data))
              <=> NumericOutOfRange(decision_data)
        /\ (pc = "done" /\ how = "salvaged") <=>
              (pc = "done" /\ ~NumericOutOfRange(decision_data))
        /\ how = "salvaged" =>
              /\ result = fix_decision_structure(decision_data)
              /\ calls.salvage = 1
        /\ (pc = "done" /\ how # "salvaged") =>
              /\ calls.salvage = max_attempts
              /\ how = "default"
              /\ outcome = "returned"
              /\ result = create_default_decision
        /\ pc = "loop" => calls.salvage = attempt /\ attempt < max_attempts

\* A record with a valid status and confidence 150 was salvaged three times,
\* failed validation each time, and the default decision came back.
C29_Witness ==
    /\ Salvaging
    /\ pc = "done"
    /\ NumericOutOfRange(payload)
    /\ payload.decision.f.status = Str("PROCEED")
    /\ payload.decision.f.confidence_score = Num(150)
    /\ calls.salvage = max_attempts
    /\ how = "default"
    /\ result = create_default_decision

\* C30: the three records process_resume stores always belong together.  A
\* run that passed the resume and API-key checks ends with the three records
\* its own stage calls returned, or with its own parsed resume and an empty
\* match analysis and decision (no job description), or with all three reset
\* to the empty models (an exception at any stage, also after the parsed
\* resume was stored); a run the checks rejected leaves the three unchanged.
StoredRecords(session_state) ==
    <<session_state.parsed_resume, session_state.match_analysis, session_state.decision>>

RunOver == stage = "process_resume" /\ pc = "done"

BundleOfThisRun ==
    /\ (RunOver /\ outcome = "returned" /\ job_desc_available(payload)) =>
          /\ Len(invocations) = 3
          /\ StoredRecords(result) = <<invocations[1].returned, invocations[2].returned,
                                invocations[3].returned>>
    /\ (RunOver /\ outcome = "returned" /\ ~job_desc_available(payload)) =>
          /\ Len(invocations) = 1
          /\ StoredRecords(result) = <<invocations[1].returned, EmptyMatchAnalysis,
                                EmptyDecisionFeedback>>
    /\ (RunOver /\ outcome = "error") =>
          StoredRecords(result) = <<EmptyParsedResume, EmptyMatchAnalysis, EmptyDecisionFeedback>>
    /\ RunOver => outcome \in {"returned", "error", "rejected"}

C30_BundleConsistentAcrossRuns ==
    /\ []BundleOfThisRun
    /\ [][(stage = "process_resume" /\ outcome' = "rejected") =>
              StoredRecords(result') = StoredRecords(result)]_vars

\* A later run, with a job description file, stored its parsed resume and its
\* match analysis, then failed in the decision stage: the three records are
\* the empty models again.  The pasted job description of an earlier run is
\* still in the session.
C30_Witness ==
    /\ RunOver
    /\ outcome = "error"
    /\ payload.job_desc_file_obj
    /\ result.job_description = "job"
    /\ Len(invocations) = 2
    /\ invocations[1].returned # create_empty_structure
    /\ invocations[2].returned = GoodAnalysis
    /\ StoredRecords(result) = <<EmptyParsedResume, EmptyMatchAnalysis, EmptyDecisionFeedback>>

====
